---------------------------- MODULE Spec2Model ----------------------------
(***************************************************************************)
(* A model of the AVIF conversion core of avif-converter:                  *)
(*   src/src/encoders/avif/encode.rs  (Encoder, quality and speed mapping, *)
(*                                     plane encoding, packaging)          *)
(*   src/src/image_file.rs            (ImageFile loading and conversion)   *)
(***************************************************************************)
EXTENDS Integers, Sequences, FiniteSets, TLC

(***************************************************************************)
(* Bounds of the model.                                                    *)
(***************************************************************************)
\* longest alpha buffer handed to the transparency scan on its own
MaxPixels == 65
\* thread counts offered to with_num_threads: 0..MaxThreads
MaxThreads == 4
\* cores reported by num_cpus::get()
NumCpus == 4
\* widest and tallest source image of a conversion
MaxWidth == 33
MaxHeight == 2
\* packets the codec hands out for one frame before it reports a status
MaxPackets == 2
\* largest width and height given to encode_raw_planes_8_bit / _10_bit directly
MaxRawDim == 2

(***************************************************************************)
(* Program constants.                                                      *)
(***************************************************************************)
\* lanes of u8x32, the SIMD vector of check_transparent_pixel
Lanes == 32
\* the fully opaque alpha value
Opaque == 255
\* quality range asserted by with_quality / with_alpha_quality
MinQuality == 1
MaxQuality == 100
\* speed range asserted by with_speed
MinSpeed == 1
MaxSpeed == 10
\* narrowest image load_image_data_from_reader accepts
MinWidth == 32

\* Option and Result values of the program, and an unwinding panic
None == [tag |-> "None"]
Some(x) == [tag |-> "Some", v |-> x]
Ok(x) == [tag |-> "Ok", v |-> x]
Err(e) == [tag |-> "Err", e |-> e]
Panic == [tag |-> "Panic"]

(***************************************************************************)
(* f32 arithmetic on non-negative values.  A value is <<m, e>> standing    *)
(* for m * 2^e with m = 0 or 2^23 <= m < 2^24 (24 significant bits).       *)
(* Every operation computes the exact result and rounds it to nearest,     *)
(* ties to even, as IEEE-754 binary32 does.  Intermediate integers stay    *)
(* below 2^31 by splitting wide values into <<hi, lo>> = hi * 2^24 + lo.   *)
(***************************************************************************)
Pow2(k) == 2 ^ k

F32Base == Pow2(24)

BitLen(n) ==
    IF n >= Pow2(30) THEN 31
    ELSE CHOOSE k \in 0..30 : n < Pow2(k) /\ (k = 0 \/ Pow2(k - 1) <= n)

F32Zero == <<0, 0>>

\* n < 2^24 times 2^e, exactly
F32Normalize(n, e) ==
    IF n = 0 THEN F32Zero
    ELSE LET s == 24 - BitLen(n) IN <<n * Pow2(s), e - s>>

\* (hi * 2^24 + lo) * 2^e rounded to 24 significant bits, ties to even
F32RoundWide(hi, lo, e) ==
    IF hi = 0 THEN F32Normalize(lo, e)
    ELSE LET k == BitLen(hi)
             kept == IF k <= 24 THEN hi * Pow2(24 - k) + (lo \div Pow2(k))
                     ELSE hi \div Pow2(k - 24)
             \* the dropped bits compared with half a unit in the last place
             above == IF k <= 24 THEN (lo % Pow2(k)) > Pow2(k - 1)
                      ELSE \/ (hi % Pow2(k - 24)) > Pow2(k - 25)
                           \/ ((hi % Pow2(k - 24)) = Pow2(k - 25) /\ lo > 0)
             tie == IF k <= 24 THEN (lo % Pow2(k)) = Pow2(k - 1)
                    ELSE (hi % Pow2(k - 24)) = Pow2(k - 25) /\ lo = 0
             r == IF above \/ (tie /\ kept % 2 = 1) THEN kept + 1 ELSE kept
         IN IF r = F32Base THEN <<Pow2(23), e + k + 1>> ELSE <<r, e + k>>

F32FromNat(n) == F32Normalize(n, 0)

\* a >= b as real numbers
F32Ge(a, b) ==
    IF b[1] = 0 THEN TRUE
    ELSE IF a[1] = 0 THEN FALSE
    ELSE a[2] > b[2] \/ (a[2] = b[2] /\ a[1] >= b[1])

F32Gt(a, b) == F32Ge(a, b) /\ a # b

\* a - b for a >= b
F32Sub(a, b) ==
    IF b[1] = 0 THEN a
    ELSE LET d == a[2] - b[2]
         IN IF d > 30 THEN a
            ELSE LET ahi == IF d <= 24 THEN a[1] \div Pow2(24 - d)
                            ELSE a[1] * Pow2(d - 24)
                     alo == IF d <= 24 THEN (a[1] % Pow2(24 - d)) * Pow2(d)
                            ELSE 0
                 IN IF alo >= b[1]
                    THEN F32RoundWide(ahi, alo - b[1], b[2])
                    ELSE F32RoundWide(ahi - 1, alo + F32Base - b[1], b[2])

F32Mul(a, b) ==
    IF a[1] = 0 \/ b[1] = 0 THEN F32Zero
    ELSE LET a1 == a[1] \div 4096
             a0 == a[1] % 4096
             b1 == b[1] \div 4096
             b0 == b[1] % 4096
             mid == a1 * b0 + a0 * b1
             losum == (mid % 4096) * 4096 + a0 * b0
         IN F32RoundWide(a1 * b1 + (mid \div 4096) + (losum \div F32Base),
                         losum % F32Base, a[2] + b[2])

\* <<floor(n * 2^steps / d), remainder # 0>> by binary long division, n < d
RECURSIVE F32LongDiv(_, _, _, _)
F32LongDiv(r, d, steps, quot) ==
    IF steps = 0 THEN <<quot, r # 0>>
    ELSE IF 2 * r >= d THEN F32LongDiv(2 * r - d, d, steps - 1, 2 * quot + 1)
         ELSE F32LongDiv(2 * r, d, steps - 1, 2 * quot)

\* a / b for b # 0
F32Div(a, b) ==
    IF a[1] = 0 THEN F32Zero
    ELSE LET first == IF a[1] >= b[1] THEN 1 ELSE 0
             qr == F32LongDiv(a[1] - first * b[1], b[1], 25, first)
             n == 2 * qr[1] + (IF qr[2] THEN 1 ELSE 0)
         IN F32RoundWide(n \div F32Base, n % F32Base, a[2] - b[2] - 26)

\* f32::round: to the nearest integer, halves away from zero
F32Round(a) ==
    IF a[1] = 0 THEN 0
    ELSE IF a[2] >= 0 THEN a[1] * Pow2(a[2])
    ELSE IF -a[2] > 24 THEN 0
    ELSE (a[1] + Pow2(-a[2] - 1)) \div Pow2(-a[2])

\* a cast to u8 that keeps the low eight bits
AsU8Wrapping(n) == n % 256

\* `as u8` on a non-negative integer-valued float: saturating
AsU8(n) == IF n > 255 THEN 255 ELSE IF n < 0 THEN 0 ELSE n

F32One == F32FromNat(1)

\* the literal 0.85: the f32 nearest to 85/100
F32Lit085 == F32Div(F32FromNat(85), F32FromNat(100))
\* the literals 0.25, 0.125 and 0.5 are powers of two
F32Lit025 == <<Pow2(23), -25>>
F32Lit0125 == <<Pow2(23), -26>>
F32Lit05 == <<Pow2(23), -24>>

(***************************************************************************)
(* quality_to_quantizer, encode.rs:368-378, for an integer-valued quality  *)
(* in 0..100 (the callers pass `quality as f32` of a u8, or 55., 80.).     *)
(***************************************************************************)
\* quality_to_quantizer with the middle piece written as 1 - q/2
quality_to_quantizer_no_offset(quality) ==
    LET q == F32Div(F32FromNat(quality), F32FromNat(100))
        x == IF F32Ge(q, F32Lit085) THEN F32Mul(F32Sub(F32One, q), F32FromNat(3))
             ELSE IF F32Gt(q, F32Lit025)
                  THEN F32Sub(F32One, F32Mul(q, F32Lit05))
                  ELSE F32Sub(F32One, q)
    IN AsU8(F32Round(F32Mul(x, F32FromNat(255))))

quality_to_quantizer(quality) ==
    LET q == F32Div(F32FromNat(quality), F32FromNat(100))
        x == IF F32Ge(q, F32Lit085) THEN F32Mul(F32Sub(F32One, q), F32FromNat(3))
             ELSE IF F32Gt(q, F32Lit025)
                  THEN F32Sub(F32Sub(F32One, F32Lit0125), F32Mul(q, F32Lit05))
                  ELSE F32Sub(F32One, q)
    IN AsU8(F32Round(F32Mul(x, F32FromNat(255))))

(***************************************************************************)
(* rgb_to_ycbcr, encode.rs:341-366: BT.601 in f32.  The luma sum adds      *)
(* non-negative values; the chroma differences are signed and go through   *)
(* mul_add, which rounds once, after the exact product and sum.            *)
(***************************************************************************)
\* Op applied to the values of its operands, each operand evaluated once
ByValue2(Op(_, _), a, b) == CHOOSE r \in {Op(x, y) : x \in {a}, y \in {b}} : TRUE

ByValue1(Op(_), a) == CHOOSE r \in {Op(x) : x \in {a}} : TRUE

ByValue3(Op(_, _, _), a, b, c) ==
    CHOOSE r \in {Op(x, y, z) : x \in {a}, y \in {b}, z \in {c}} : TRUE

\* a + b
F32Add(a, b) ==
    IF b[1] = 0 THEN a
    ELSE IF a[1] = 0 THEN b
    ELSE LET hi == IF F32Ge(a, b) THEN a ELSE b
             lo == IF F32Ge(a, b) THEN b ELSE a
             d == hi[2] - lo[2]
         IN IF d > 25 THEN hi
            ELSE LET whi == IF d <= 24 THEN hi[1] \div Pow2(24 - d)
                            ELSE hi[1] * Pow2(d - 24)
                     wlo == IF d <= 24 THEN (hi[1] % Pow2(24 - d)) * Pow2(d) ELSE 0
                     sum == wlo + lo[1]
                 IN F32RoundWide(whi + (sum \div F32Base), sum % F32Base, lo[2])

\* a signed value: a magnitude and whether it is below zero
F32Signed(neg, mag) == [neg |-> neg /\ mag[1] # 0, mag |-> mag]

\* a - b, of either sign
F32SubSigned(a, b) ==
    IF F32Ge(a, b) THEN F32Signed(FALSE, F32Sub(a, b))
    ELSE F32Signed(TRUE, F32Sub(b, a))

\* the exact product of two significands, <<hi, lo>> = hi * 2^24 + lo
F32MulWide(a, b) ==
    LET a1 == a[1] \div 4096
        a0 == a[1] % 4096
        b1 == b[1] \div 4096
        b0 == b[1] % 4096
        mid == a1 * b0 + a0 * b1
        losum == (mid % 4096) * 4096 + a0 * b0
    IN <<a1 * b1 + (mid \div 4096) + (losum \div F32Base), losum % F32Base>>

\* <<hi, lo>> shifted right by s >= 1 bits: <<hi', lo', bits were lost>>
WideShr(w, s) ==
    IF s >= 48 THEN <<0, 0, TRUE>>
    ELSE IF s >= 24
         THEN <<0, w[1] \div Pow2(s - 24),
                (w[1] % Pow2(s - 24)) # 0 \/ w[2] # 0>>
         ELSE <<w[1] \div Pow2(s),
                (w[1] % Pow2(s)) * Pow2(24 - s) + (w[2] \div Pow2(s)),
                (w[2] % Pow2(s)) # 0>>

WideGe(x, y) == x[1] > y[1] \/ (x[1] = y[1] /\ x[2] >= y[2])

WideAdd(x, y) ==
    <<x[1] + y[1] + ((x[2] + y[2]) \div F32Base), (x[2] + y[2]) % F32Base>>

\* x - y for x >= y
WideSub(x, y) ==
    IF x[2] >= y[2] THEN <<x[1] - y[1], x[2] - y[2]>>
    ELSE <<x[1] - y[1] - 1, x[2] + F32Base - y[2]>>

\* the finest unit, 2^MulAddUnit, in which mul_add keeps the product when
\* the addend is the larger term
MulAddUnit == -44

\* f32::mul_add: a * b + c with one rounding, for a signed a, b > 0 and
\* an integer c with 0 < c < 2^10
F32MulAdd(a, b, c) ==
    IF a.mag[1] = 0 THEN F32Signed(FALSE, F32FromNat(c))
    ELSE LET ep == a.mag[2] + b[2]
             prod == F32MulWide(a.mag, b)
             \* the unit of the sum, and the product in it
             unit == IF ep >= MulAddUnit THEN ep ELSE MulAddUnit
             p == IF ep >= MulAddUnit THEN <<prod[1], prod[2], FALSE>>
                  ELSE WideShr(prod, MulAddUnit - ep)
             addend == IF -unit >= 24 THEN <<c * Pow2(-unit - 24), 0>>
                       ELSE <<c \div Pow2(24 + unit), (c % Pow2(24 + unit)) * Pow2(-unit)>>
             pw == <<p[1], p[2]>>
             \* below: the floor of the magnitude of the sum, in units
             same == WideAdd(addend, pw)
             less == IF WideGe(addend, pw) THEN WideSub(addend, pw) ELSE WideSub(pw, addend)
             floor == IF ~a.neg THEN same
                      ELSE IF p[3] /\ WideGe(addend, pw) THEN WideSub(less, <<0, 1>>)
                           ELSE less
             neg == a.neg /\ ~WideGe(addend, pw)
         IN IF p[3]
            \* lost bits lie far below the last place: one trailing bit stands for them
            THEN LET twice == WideAdd(WideAdd(floor, floor), <<0, 1>>)
                 IN F32Signed(neg, ByValue3(F32RoundWide, twice[1], twice[2], unit - 1))
            ELSE F32Signed(neg, ByValue3(F32RoundWide, floor[1], floor[2], unit))

\* f32::round of a signed value, as an integer
F32RoundSigned(a) == IF a.neg THEN -F32Round(a.mag) ELSE F32Round(a.mag)

\* the red weight of BT.709, 0.2126
F32Lit02126 == F32Div(F32FromNat(2126), F32FromNat(10000))

\* the BT601 matrix literals 0.2990, 0.5870, 0.1140
F32Lit0299 == F32Div(F32FromNat(299), F32FromNat(1000))
F32Lit0587 == F32Div(F32FromNat(587), F32FromNat(1000))
F32Lit0114 == F32Div(F32FromNat(114), F32FromNat(1000))

\* encode.rs:342-354; the result is (y.round(), cb.round(), cr.round())
rgb_to_ycbcr(px, depth) ==
    ByValue1(LAMBDA max_value :
    ByValue2(LAMBDA scale, shift :
    ByValue1(LAMBDA y :
    ByValue2(LAMBDA cb, cr : <<F32Round(y), F32RoundSigned(cb), F32RoundSigned(cr)>>,
        \* cb
        ByValue3(F32MulAdd,
            ByValue2(F32SubSigned, ByValue2(F32Mul, F32FromNat(px.b), scale), y),
            ByValue2(F32Div, F32Lit05, ByValue2(F32Sub, F32One, F32Lit0114)),
            shift),
        \* cr
        ByValue3(F32MulAdd,
            ByValue2(F32SubSigned, ByValue2(F32Mul, F32FromNat(px.r), scale), y),
            ByValue2(F32Div, F32Lit05, ByValue2(F32Sub, F32One, F32Lit0299)),
            shift)),
        \* y
        ByValue2(F32Add,
            ByValue2(F32Add,
                ByValue2(F32Mul, ByValue2(F32Mul, scale, F32Lit0299), F32FromNat(px.r)),
                ByValue2(F32Mul, ByValue2(F32Mul, scale, F32Lit0587), F32FromNat(px.g))),
            ByValue2(F32Mul, ByValue2(F32Mul, scale, F32Lit0114), F32FromNat(px.b)))),
        \* scale, shift
        ByValue2(F32Div, max_value, F32FromNat(255)),
        F32Round(ByValue2(F32Mul, max_value, F32Lit05))),
        \* max_value
        F32FromNat(Pow2(depth) - 1))

\* `as u16` on an integer-valued float: saturating
AsU16(n) == IF n > 65535 THEN 65535 ELSE IF n < 0 THEN 0 ELSE n

\* encode.rs:356-360
rgb_to_10_bit_ycbcr(px) ==
    ByValue1(LAMBDA yuv : <<AsU16(yuv[1]), AsU16(yuv[2]), AsU16(yuv[3])>>,
             rgb_to_ycbcr(px, 10))

\* encode.rs:362-366
rgb_to_8_bit_ycbcr(px) ==
    ByValue1(LAMBDA yuv : <<AsU8(yuv[1]), AsU8(yuv[2]), AsU8(yuv[3])>>,
             rgb_to_ycbcr(px, 8))

(***************************************************************************)
(* SpeedTweaks::from_my_preset, encode.rs:403-453.                         *)
(***************************************************************************)
Min(a, b) == IF a <= b THEN a ELSE b

\* the low-quality threshold taken at quality 50
quantizer_of_50 == quality_to_quantizer(50)

\* the two thresholds of from_my_preset, encode.rs:404-405
quantizer_of_55 == quality_to_quantizer(55)
quantizer_of_80 == quality_to_quantizer(80)

\* the partition range with the second guarded arm not capped by
\* max_block_size
partition_range_uncapped(speed, low_quality, max_block_size) ==
    IF speed = 0 THEN <<4, Min(64, max_block_size)>>
    ELSE IF speed = 1 /\ low_quality THEN <<4, Min(64, max_block_size)>>
    ELSE IF speed = 2 /\ low_quality THEN <<4, 32>>
    ELSE IF speed \in 1..4 THEN <<4, 16>>
    ELSE IF speed \in 5..8 THEN <<8, 16>>
    ELSE <<16, 16>>

\* the match on speed that yields partition_range, encode.rs:411-418
partition_range(speed, low_quality, max_block_size) ==
    IF speed = 0 THEN <<4, Min(64, max_block_size)>>
    ELSE IF speed = 1 /\ low_quality THEN <<4, Min(64, max_block_size)>>
    ELSE IF speed = 2 /\ low_quality THEN <<4, Min(32, max_block_size)>>
    ELSE IF speed \in 1..4 THEN <<4, 16>>
    ELSE IF speed \in 5..8 THEN <<8, 16>>
    ELSE <<16, 16>>

from_my_preset(speed, quantizer) ==
    LET low_quality == quantizer < quantizer_of_55
        high_quality == quantizer > quantizer_of_80
        max_block_size == IF high_quality THEN 16 ELSE 64
    IN [speed_preset |-> speed,
        partition_range |-> partition_range(speed, low_quality, max_block_size),
        complex_prediction_modes |-> Some(speed <= 1),
        sgr_complexity_full |-> Some(speed <= 2),
        encode_bottomup |-> Some(speed <= 2),
        rdo_tx_decision |-> Some(speed <= 4 /\ ~high_quality),
        reduced_tx_set |-> Some(speed = 4 \/ speed >= 9),
        fine_directional_intra |-> Some(speed <= 6),
        fast_deblock |-> Some(speed >= 7 /\ ~high_quality),
        lrf |-> Some(low_quality /\ speed <= 8),
        cdef |-> Some(low_quality /\ speed <= 9),
        inter_tx_split |-> Some(speed >= 9),
        tx_domain_rate |-> Some(speed >= 10),
        tx_domain_distortion |-> None,
        use_satd_subpel |-> Some(FALSE),
        min_tile_size |->
            (CASE speed = 0 -> 4096
               [] speed = 1 -> 2048
               [] speed = 2 -> 1024
               [] speed = 3 -> 512
               [] speed = 4 -> 256
               [] OTHER -> 128) * (IF high_quality THEN 2 ELSE 1)]

(***************************************************************************)
(* SpeedTweaks::speed_settings, encode.rs:455-527: the overrides laid over *)
(* the codec's preset; it panics on a partition range that is inverted or  *)
(* names a block size the codec does not have.                             *)
(***************************************************************************)
BlockSizes == {4, 8, 16, 32, 64, 128}

speed_settings(self) ==
    IF \/ self.partition_range[1] > self.partition_range[2]
       \/ self.partition_range[1] \notin BlockSizes
       \/ self.partition_range[2] \notin BlockSizes
    THEN Panic
    ELSE [preset |-> self.speed_preset,
          multiref |-> FALSE,
          rdo_lookahead_frames |-> 1,
          fast_deblock |-> self.fast_deblock,
          reduced_tx_set |-> self.reduced_tx_set,
          tx_domain_distortion |-> self.tx_domain_distortion,
          tx_domain_rate |-> self.tx_domain_rate,
          encode_bottomup |-> self.encode_bottomup,
          rdo_tx_decision |-> self.rdo_tx_decision,
          cdef |-> self.cdef,
          lrf |-> self.lrf,
          enable_inter_tx_split |-> self.inter_tx_split,
          sgr_complexity_full |-> self.sgr_complexity_full,
          use_satd_subpel |-> self.use_satd_subpel,
          fine_directional_intra |-> self.fine_directional_intra,
          complex_prediction_modes |-> self.complex_prediction_modes,
          partition_range |-> self.partition_range]

(***************************************************************************)
(* rav1e_config, encode.rs:543-583, on an Av1EncodeConfig p.               *)
(***************************************************************************)
\* rav1e_config asking for one tile per thread whatever the image area
rav1e_config_tiles_per_thread(p) ==
    [width |-> p.width,
     height |-> p.height,
     bit_depth |-> p.bit_depth,
     chroma_sampling |-> p.chroma_sampling,
     pixel_range |-> p.pixel_range,
     color_description |-> p.color_description,
     still_picture |-> TRUE,
     min_key_frame_interval |-> 0,
     max_key_frame_interval |-> 0,
     quantizer |-> p.quantizer,
     min_quantizer |-> p.quantizer,
     tiles |-> p.threads,
     speed_settings |-> speed_settings(p.speed),
     threads |-> p.threads]

rav1e_config(p) ==
    LET tiles == Min(p.threads,
                     (p.width * p.height) \div (p.speed.min_tile_size * p.speed.min_tile_size))
    IN [width |-> p.width,
        height |-> p.height,
        bit_depth |-> p.bit_depth,
        chroma_sampling |-> p.chroma_sampling,
        pixel_range |-> p.pixel_range,
        color_description |-> p.color_description,
        still_picture |-> TRUE,
        min_key_frame_interval |-> 0,
        max_key_frame_interval |-> 0,
        quantizer |-> p.quantizer,
        min_quantizer |-> p.quantizer,
        tiles |-> tiles,
        speed_settings |-> speed_settings(p.speed),
        threads |-> p.threads]

(***************************************************************************)
(* The two Av1EncodeConfig values built by encode_raw_planes,              *)
(* encode.rs:285-296 (color) and encode.rs:300-313 (alpha).                *)
(***************************************************************************)
ColorDescription ==
    Some([transfer_characteristics |-> "SRGB",
          color_primaries |-> "BT709",
          matrix_coefficients |-> "BT601"])

color_config(self, width, height, color_pixel_range, bit_depth) ==
    [width |-> width,
     height |-> height,
     bit_depth |-> bit_depth,
     quantizer |-> self.quantizer,
     speed |-> from_my_preset(self.speed, self.quantizer),
     threads |-> self.threads,
     pixel_range |-> color_pixel_range,
     chroma_sampling |-> "Cs444",
     color_description |-> ColorDescription]

\* the alpha plane tuned by the color quantizer instead of its own
alpha_config_color_quantizer(self, width, height, bit_depth) ==
    [width |-> width,
     height |-> height,
     bit_depth |-> bit_depth,
     quantizer |-> self.alpha_quantizer,
     speed |-> from_my_preset(self.speed, self.quantizer),
     threads |-> self.threads,
     pixel_range |-> "Full",
     chroma_sampling |-> "Cs400",
     color_description |-> None]

alpha_config(self, width, height, bit_depth) ==
    [width |-> width,
     height |-> height,
     bit_depth |-> bit_depth,
     quantizer |-> self.alpha_quantizer,
     speed |-> from_my_preset(self.speed, self.alpha_quantizer),
     threads |-> self.threads,
     pixel_range |-> "Full",
     chroma_sampling |-> "Cs400",
     color_description |-> None]

(***************************************************************************)
(* Encoder and its builder methods, encode.rs:41-93.  A builder method     *)
(* whose assertion fails unwinds: no Encoder comes back, and the rest of   *)
(* a call chain is not run.                                                *)
(***************************************************************************)
Encoder_new ==
    [quantizer |-> quality_to_quantizer(80),
     alpha_quantizer |-> quality_to_quantizer(80),
     speed |-> 5,
     threads |-> NumCpus]

\* with_quality clamping its argument into the range instead of asserting
with_quality_clamped(self, quality) ==
    IF self = Panic THEN Panic
    ELSE [self EXCEPT !.quantizer =
              quality_to_quantizer(IF quality < MinQuality THEN MinQuality
                                   ELSE Min(quality, MaxQuality))]

with_quality(self, quality) ==
    IF self = Panic THEN Panic
    ELSE IF quality \in MinQuality..MaxQuality
         THEN [self EXCEPT !.quantizer = quality_to_quantizer(quality)]
         ELSE Panic

with_alpha_quality(self, quality) ==
    IF self = Panic THEN Panic
    ELSE IF quality \in MinQuality..MaxQuality
         THEN [self EXCEPT !.alpha_quantizer = quality_to_quantizer(quality)]
         ELSE Panic

with_speed(self, speed) ==
    IF self = Panic THEN Panic
    ELSE IF speed \in MinSpeed..MaxSpeed
         THEN [self EXCEPT !.speed = speed]
         ELSE Panic

with_num_threads(self, num_threads) ==
    IF self = Panic THEN Panic
    ELSE [self EXCEPT !.threads = num_threads]

(***************************************************************************)
(* Encoder::check_transparent_pixel, encode.rs:168-191.  `image` is the    *)
(* pixel slice, given by its alpha samples.  as_simd::<32> splits the      *)
(* freshly allocated alpha buffer at the 32-byte boundaries of its         *)
(* address: `off` is the distance from the buffer's start to the next      *)
(* boundary, which the allocator decides.                                  *)
(***************************************************************************)
as_simd(pixel_alpha, off) ==
    LET p == Min(off, Len(pixel_alpha))
        n == (Len(pixel_alpha) - p) \div Lanes
    IN <<SubSeq(pixel_alpha, 1, p),
         [i \in 1..n |-> SubSeq(pixel_alpha, p + (i - 1) * Lanes + 1, p + i * Lanes)],
         SubSeq(pixel_alpha, p + n * Lanes + 1, Len(pixel_alpha))>>

alpha_mask == [i \in 1..Lanes |-> Opaque]

\* a scan that compares each vector for inequality with the mask
check_transparent_pixel_inverted(image, off) ==
    LET pixel_alpha == image
        sd == as_simd(pixel_alpha, off)[2]
    IN \A i \in 1..Len(sd) : sd[i] # alpha_mask

check_transparent_pixel(image, off) ==
    LET pixel_alpha == image
        sd == as_simd(pixel_alpha, off)[2]
    IN \A i \in 1..Len(sd) : sd[i] = alpha_mask

\* the alignment offsets an allocation can have
Offsets == 0..(Lanes - 1)

\* alpha values of a pixel that is not fully opaque, as generated
TransparentValues == {0, Opaque - 1}

\* alpha buffers of n samples: all opaque, or opaque but for one sample
AlphaSeqs(n) ==
    {[i \in 1..n |-> Opaque]}
    \cup {[i \in 1..n |-> IF i = k THEN v ELSE Opaque] :
              k \in 1..n, v \in TransparentValues}

(***************************************************************************)
(* State.                                                                  *)
(***************************************************************************)
VARIABLES
    fn,         \* the function a single-function specification applies
    arg,        \* its arguments
    ret,        \* None, or Some of what it returned
    file,       \* the source image file on disk, None for a caller of the raw-plane API
    image,      \* the ImageFile: bitmap, encoded_data, width, height
    raw_image,  \* what the decoder produced in load_image_data_from_reader
    params,     \* arguments of the running convert_to_avif_stored call
    encoder,    \* the Encoder
    pc,         \* where the call is
    call,       \* arguments of the running encode_raw_planes call
    plane,      \* the plane encode_to_av1 is working on: "color", "alpha"
    ctx,        \* encode_to_av1's locals: codec configuration, frame, out
    color,      \* encode_raw_planes' `color`: Result of the color encode
    alpha,      \* encode_raw_planes' `alpha`: Option of the Result of the alpha encode
    enc,        \* what encode_raw_planes returned
    packaged,   \* the arguments the container packager was called with
    codec,      \* per plane: codec calls made, whether a frame was sent, error reported
    result,     \* what the outermost call returned
    disk,       \* the file system: path -> bytes of the file at that path
    jobs,       \* per job: the ImageFile it owns and where its closure is
    stats,      \* SUCCESS_COUNT, FINAL_STATS, ITEMS_PROCESSED
    main        \* the command in the main thread: its arguments and position

fn_vars == <<fn, arg, ret>>

conv_vars == <<file, image, raw_image, params, encoder, pc, call, plane, ctx, color,
               alpha, enc, packaged, codec, result>>

io_vars == <<disk, jobs, stats, main>>

vars == <<fn_vars, conv_vars, io_vars>>

\* ImageFile::new_from_path, image_file.rs:58-72
new_from_path ==
    [bitmap |-> [width |-> 0, height |-> 0, has_alpha |-> TRUE, alpha |-> <<>>],
     exif_data |-> <<>>,
     encoded_data |-> <<>>,
     width |-> 0,
     height |-> 0]

NoCodecUse ==
    [p \in {"color", "alpha"} |-> [calls |-> 0, sent |-> FALSE, err |-> None]]

\* no command is running and nothing is on disk
NoIo ==
    /\ disk = <<>>
    /\ jobs = <<>>
    /\ stats = [SUCCESS_COUNT |-> 0, FINAL_STATS |-> 0, ITEMS_PROCESSED |-> 0]
    /\ main = [mode |-> "none"]

\* no conversion is running: the state of the single-function specifications
NoConversion ==
    /\ file = None
    /\ image = new_from_path
    /\ raw_image = None
    /\ params = None
    /\ encoder = None
    /\ pc = "off"
    /\ call = None
    /\ plane = "none"
    /\ ctx = None
    /\ color = None
    /\ alpha = None
    /\ enc = None
    /\ packaged = None
    /\ codec = NoCodecUse
    /\ result = None

(***************************************************************************)
(* quality_to_quantizer applied to two qualities.                          *)
(***************************************************************************)
InitQ ==
    /\ NoConversion
    /\ NoIo
    /\ fn = "quality_to_quantizer"
    /\ arg \in {<<q1, q2>> \in (MinQuality..MaxQuality) \X (MinQuality..MaxQuality) : q1 < q2}
    /\ ret = None

CallQualityToQuantizer ==
    /\ fn = "quality_to_quantizer"
    /\ ret = None
    /\ ret' = Some(<<quality_to_quantizer(arg[1]), quality_to_quantizer(arg[2])>>)
    /\ UNCHANGED <<fn, arg, conv_vars, io_vars>>

NextQ == CallQualityToQuantizer

SpecQ == InitQ /\ [][NextQ]_vars

(***************************************************************************)
(* check_transparent_pixel applied to an alpha buffer at an alignment.     *)
(***************************************************************************)
InitScan ==
    /\ NoConversion
    /\ NoIo
    /\ fn = "check_transparent_pixel"
    /\ \E n \in 0..MaxPixels :
           arg \in [image : AlphaSeqs(n), off : Offsets]
    /\ ret = None

CallCheckTransparentPixel ==
    /\ fn = "check_transparent_pixel"
    /\ ret = None
    /\ ret' = Some(check_transparent_pixel(arg.image, arg.off))
    /\ UNCHANGED <<fn, arg, conv_vars, io_vars>>

NextScan == CallCheckTransparentPixel

SpecScan == InitScan /\ [][NextScan]_vars

(***************************************************************************)
(* rav1e_config applied to the color and to the alpha configuration that   *)
(* encode_raw_planes builds from an Encoder and the image dimensions.      *)
(***************************************************************************)
TileQualities == {1, 55, 56, 79, 80, 81, 100}
TileDims == {32, 250, 1024, 4096}
BitDepths == {8, 10}

InitTiles ==
    /\ NoConversion
    /\ NoIo
    /\ fn = "rav1e_config"
    /\ \E q \in TileQualities, aq \in TileQualities, s \in MinSpeed..MaxSpeed,
          t \in 0..MaxThreads :
           arg \in [self : {with_speed(with_quality(with_alpha_quality(
                                with_num_threads(Encoder_new, t), aq), q), s)},
                    width : TileDims, height : TileDims, bit_depth : BitDepths]
    /\ ret = [color |-> None, alpha |-> None]

CallRav1eConfigColor ==
    /\ fn = "rav1e_config"
    /\ ret.color = None
    /\ ret' = [ret EXCEPT !.color = Some(rav1e_config(
                   color_config(arg.self, arg.width, arg.height, "Full", arg.bit_depth)))]
    /\ UNCHANGED <<fn, arg, conv_vars, io_vars>>

CallRav1eConfigAlpha ==
    /\ fn = "rav1e_config"
    /\ ret.alpha = None
    /\ ret' = [ret EXCEPT !.alpha = Some(rav1e_config(
                   alpha_config(arg.self, arg.width, arg.height, arg.bit_depth)))]
    /\ UNCHANGED <<fn, arg, conv_vars, io_vars>>

NextTiles == CallRav1eConfigColor \/ CallRav1eConfigAlpha

SpecTiles == InitTiles /\ [][NextTiles]_vars

(***************************************************************************)
(* SpeedTweaks::from_my_preset and speed_settings applied to a speed and a *)
(* quantizer: any u8 quantizer, or the one Encoder::with_quality stores    *)
(* for a quality.                                                          *)
(***************************************************************************)
MaxQuantizer == 255

InitPreset ==
    /\ NoConversion
    /\ NoIo
    /\ fn = "from_my_preset"
    /\ \/ arg \in [speed : 0..MaxSpeed, quantizer : 0..MaxQuantizer, quality : {None}]
       \/ \E s \in 0..MaxSpeed, q \in MinQuality..MaxQuality :
              arg = [speed |-> s, quantizer |-> quality_to_quantizer(q),
                     quality |-> Some(q)]
    /\ ret = [tweaks |-> None, settings |-> None]

CallFromMyPreset ==
    /\ fn = "from_my_preset"
    /\ ret.tweaks = None
    /\ ret' = [ret EXCEPT !.tweaks = Some(from_my_preset(arg.speed, arg.quantizer))]
    /\ UNCHANGED <<fn, arg, conv_vars, io_vars>>

CallSpeedSettings ==
    /\ fn = "from_my_preset"
    /\ ret.tweaks # None
    /\ ret.settings = None
    /\ ret' = [ret EXCEPT !.settings = Some(speed_settings(ret.tweaks.v))]
    /\ UNCHANGED <<fn, arg, conv_vars, io_vars>>

NextPreset == CallFromMyPreset \/ CallSpeedSettings

SpecPreset == InitPreset /\ [][NextPreset]_vars

(***************************************************************************)
(* utils.rs:81-101: the thread budget of a batch.  num_cpus::get() is      *)
(* NumCpus; a division by zero panics.                                     *)
(***************************************************************************)
MaxItems == 12

\* utils.rs:81-86; the assert_ne! on the result is taken by the caller below
sys_threads(num) == IF num > 0 THEN num ELSE NumCpus

calculate_tread_count(num_threads, num_items) ==
    LET sel_thread_count == sys_threads(num_threads)
    IN IF sel_thread_count = 0 THEN Panic
       ELSE IF num_items >= sel_thread_count
            THEN [task_threads |-> 1, spawn_threads |-> sel_thread_count]
            ELSE IF num_items = 0 THEN Panic
            ELSE [task_threads |-> sel_thread_count \div num_items,
                  spawn_threads |-> sel_thread_count]

InitThreads ==
    /\ NoConversion
    /\ NoIo
    /\ fn = "calculate_tread_count"
    /\ arg \in [num_threads : 0..MaxThreads, num_items : 0..MaxItems]
    /\ ret = None

CallCalculateTreadCount ==
    /\ fn = "calculate_tread_count"
    /\ ret = None
    /\ ret' = Some(calculate_tread_count(arg.num_threads, arg.num_items))
    /\ UNCHANGED <<fn, arg, conv_vars, io_vars>>

NextThreads == CallCalculateTreadCount

SpecThreads == InitThreads /\ [][NextThreads]_vars

(***************************************************************************)
(* The builder methods applied to an Encoder in any order.                 *)
(***************************************************************************)
BuilderQualities == {0, MinQuality, 50, MaxQuality, MaxQuality + 1, 255}
BuilderSpeeds == {0, MinSpeed, MaxSpeed, MaxSpeed + 1, 255}

InitBuilder ==
    /\ NoConversion
    /\ NoIo
    /\ fn = "Encoder"
    /\ arg = None
    /\ ret = Encoder_new

CallWithQuality ==
    /\ fn = "Encoder" /\ ret # Panic
    /\ \E q \in BuilderQualities :
           /\ arg' = [method |-> "with_quality", v |-> q]
           /\ ret' = with_quality(ret, q)
    /\ UNCHANGED <<fn, conv_vars, io_vars>>

CallWithAlphaQuality ==
    /\ fn = "Encoder" /\ ret # Panic
    /\ \E q \in BuilderQualities :
           /\ arg' = [method |-> "with_alpha_quality", v |-> q]
           /\ ret' = with_alpha_quality(ret, q)
    /\ UNCHANGED <<fn, conv_vars, io_vars>>

CallWithSpeed ==
    /\ fn = "Encoder" /\ ret # Panic
    /\ \E s \in BuilderSpeeds :
           /\ arg' = [method |-> "with_speed", v |-> s]
           /\ ret' = with_speed(ret, s)
    /\ UNCHANGED <<fn, conv_vars, io_vars>>

CallWithNumThreads ==
    /\ fn = "Encoder" /\ ret # Panic
    /\ \E t \in 0..MaxThreads :
           /\ arg' = [method |-> "with_num_threads", v |-> t]
           /\ ret' = with_num_threads(ret, t)
    /\ UNCHANGED <<fn, conv_vars, io_vars>>

NextBuilder ==
    \/ CallWithQuality
    \/ CallWithAlphaQuality
    \/ CallWithSpeed
    \/ CallWithNumThreads

SpecBuilder == InitBuilder /\ [][NextBuilder]_vars

(***************************************************************************)
(* The color conversions on their own: an RGB pixel and one call of        *)
(* rgb_to_8_bit_ycbcr or rgb_to_10_bit_ycbcr on it; the result keeps the   *)
(* rounded floats beside the integers the cast makes of them.              *)
(***************************************************************************)
\* channel values of the pixels converted
ChannelSamples == {0, 1, 2, 17, 31, 64, 111, 127, 128, 141, 200, 254, 255}

InitYcc ==
    /\ NoConversion
    /\ NoIo
    /\ fn \in {"rgb_to_8_bit_ycbcr", "rgb_to_10_bit_ycbcr"}
    /\ arg \in [r : ChannelSamples, g : ChannelSamples, b : ChannelSamples]
    /\ ret = None

CallRgbTo8BitYcbcr ==
    /\ fn = "rgb_to_8_bit_ycbcr"
    /\ ret = None
    /\ ret' = Some([depth |-> 8, rounded |-> rgb_to_ycbcr(arg, 8),
                    out |-> rgb_to_8_bit_ycbcr(arg)])
    /\ UNCHANGED <<fn, arg, conv_vars, io_vars>>

CallRgbTo10BitYcbcr ==
    /\ fn = "rgb_to_10_bit_ycbcr"
    /\ ret = None
    /\ ret' = Some([depth |-> 10, rounded |-> rgb_to_ycbcr(arg, 10),
                    out |-> rgb_to_10_bit_ycbcr(arg)])
    /\ UNCHANGED <<fn, arg, conv_vars, io_vars>>

NextYcc == CallRgbTo8BitYcbcr \/ CallRgbTo10BitYcbcr

SpecYcc == InitYcc /\ [][NextYcc]_vars

(***************************************************************************)
(* The conversion of one image file:                                       *)
(*   ImageFile::convert_to_avif_stored -> load_image_data_from_reader ->    *)
(*   Encoder builder -> Encoder::encode -> encode_rgba | encode_rgb ->     *)
(*   encode_raw_planes -> encode_to_av1 per plane -> packager,             *)
(* and a caller that hands sample producers of its own to                  *)
(* encode_raw_planes_8_bit / encode_raw_planes_10_bit.                     *)
(* A bitmap is given by its dimensions, whether its color type has an      *)
(* alpha channel, and the alpha samples to_rgba8() yields.                 *)
(***************************************************************************)
Formats == {"Png", "Jpeg"}

Widths == {1} \cup ((MinWidth - 1)..MaxWidth)

OpaqueSeq(n) == [i \in 1..n |-> Opaque]

\* tEXt chunks a file may carry: only PNG files have any
TextChunks(f) == IF f = "Png" THEN {0, 1} ELSE {0}

\* pixels of an n-pixel image that may be the transparent one: the first and
\* the last, and the two on either side of the first vector boundary
TransparentAt(n) == {1, Lanes, Lanes + 1, n} \cap (1..n)

\* image files: without alpha channel, or with one that is fully opaque or
\* fully transparent in one pixel
Files ==
    UNION {
        {[format |-> f, width |-> w, height |-> h, has_alpha |-> FALSE,
          alpha |-> OpaqueSeq(w * h), text_chunks |-> t]}
        \cup {[format |-> f, width |-> w, height |-> h, has_alpha |-> TRUE, alpha |-> s,
               text_chunks |-> t] :
                 s \in {OpaqueSeq(w * h)}
                       \cup {[i \in 1..(w * h) |-> IF i = k THEN 0 ELSE Opaque] :
                                k \in TransparentAt(w * h)}}
        : <<f, t>> \in {<<"Png", 0>>, <<"Png", 1>>, <<"Jpeg", 0>>},
          w \in Widths, h \in 1..MaxHeight}

\* arguments given to convert_to_avif_stored
ConvQualities == {0, 60}
ConvSpeeds == {6, MaxSpeed + 1}
ConvThreads == {2}
ConvDepths == {8, 10, 12}

\* errors the codec reports from new_context, send_frame and receive_packet
NewContextErrors == {"InvalidConfig"}
SendFrameErrors == {"EnoughData"}
ReceivePacketErrors == {"Failure"}

Init ==
    /\ fn = "none" /\ arg = None /\ ret = None
    /\ NoIo
    /\ file \in Files \cup {None}
    /\ image = new_from_path
    /\ raw_image = None
    /\ params = None
    /\ encoder = None
    /\ pc = "idle"
    /\ call = None
    /\ plane = "none"
    /\ ctx = None
    /\ color = None
    /\ alpha = None
    /\ enc = None
    /\ packaged = None
    /\ codec = NoCodecUse
    /\ result = None

\* image_file.rs:250-261: the call, up to the decision to load the file
convert_to_avif_stored ==
    /\ pc = "idle"
    /\ file # None
    /\ \E quality \in ConvQualities, speed \in ConvSpeeds, threads \in ConvThreads,
          depth \in ConvDepths, remove_alpha \in BOOLEAN :
           params' = [quality |-> quality, speed |-> speed, threads |-> threads,
                      depth |-> depth, remove_alpha |-> remove_alpha]
    /\ pc' = IF image.bitmap.alpha = <<>> THEN "load_image_data" ELSE "builder"
    /\ UNCHANGED <<fn_vars, io_vars, file, image, raw_image, encoder, call, plane, ctx, color,
                   alpha, enc, packaged, codec, result>>

\* image_file.rs:169-180: the image laid over an opaque black square
remove_alpha_overlay(img) ==
    [width |-> img.width, height |-> img.height, has_alpha |-> TRUE,
     alpha |-> OpaqueSeq(img.width * img.height)]

\* the PNG branch, image_file.rs:163-187, on the decoded image
load_png(img, remove_alpha) ==
    IF img.width < MinWidth THEN Err("Image width too small for encode!")
    ELSE Ok(IF remove_alpha /\ img.has_alpha THEN remove_alpha_overlay(img) ELSE img)

\* the generic branch with its bound one too low
load_generic_off_by_one(img, remove_alpha) ==
    IF img.width < MinWidth - 1 THEN Err("Image width too small for encode!")
    ELSE Ok(IF remove_alpha /\ img.has_alpha THEN remove_alpha_overlay(img) ELSE img)

\* the generic branch, image_file.rs:197-240: the check and the overlay are
\* written twice
load_generic(img, remove_alpha) ==
    IF img.width < MinWidth THEN Err("Image width too small for encode!")
    ELSE LET first == IF remove_alpha /\ img.has_alpha THEN remove_alpha_overlay(img)
                      ELSE img
         IN IF first.width < MinWidth THEN Err("Image width too small for encode!")
            ELSE Ok(IF remove_alpha /\ first.has_alpha THEN remove_alpha_overlay(first)
                    ELSE first)

\* ImageFile::extract_png_metadata, image_file.rs:75-141: no chunk leaves
\* exif_data alone; otherwise it becomes the length prefix, "Exif\0\0", the
\* TIFF header and the IFD, of which the entry count is kept here and the
\* entries and their values are left out
extract_png_metadata(exif_data, text_chunks) ==
    IF text_chunks = 0 THEN exif_data
    ELSE <<0, 0, 0, 6>> \o <<69, 120, 105, 102, 0, 0>>
         \o <<77, 77, 0, 42, 0, 0, 0, 8>> \o <<0, text_chunks>>

\* image_file.rs:143-248: load_image_data and load_image_data_from_reader;
\* opening the file or reading its header may fail, and so may decoding it,
\* which for a PNG file comes after extract_png_metadata
load_image_data_from_reader ==
    /\ pc = "load_image_data"
    /\ LET exif == IF file.format = "Png"
                   THEN extract_png_metadata(image.exif_data, file.text_chunks)
                   ELSE image.exif_data
       IN \/ /\ result' = Err("open")
             /\ pc' = "done"
             /\ UNCHANGED <<image, raw_image>>
          \/ /\ result' = Err("decode")
             /\ pc' = "done"
             /\ image' = [image EXCEPT !.exif_data = exif]
             /\ UNCHANGED raw_image
          \/ LET img == [width |-> file.width, height |-> file.height,
                         has_alpha |-> file.has_alpha, alpha |-> file.alpha]
                 loaded == IF file.format = "Png" THEN load_png(img, params.remove_alpha)
                           ELSE load_generic(img, params.remove_alpha)
             IN /\ raw_image' = Some([width |-> img.width, height |-> img.height])
                /\ IF loaded.tag = "Err"
                   THEN /\ result' = loaded
                        /\ pc' = "done"
                        /\ image' = [image EXCEPT !.exif_data = exif]
                   ELSE /\ image' = [image EXCEPT !.bitmap = loaded.v,
                                                  !.exif_data = exif,
                                                  !.width = loaded.v.width,
                                                  !.height = loaded.v.height]
                        /\ pc' = "builder"
                        /\ UNCHANGED result
    /\ UNCHANGED <<fn_vars, io_vars, file, params, encoder, call, plane, ctx, color, alpha, enc,
                   packaged, codec>>

\* image_file.rs:263-269: the builder chain, one method at a time; a failed
\* assertion unwinds out of convert_to_avif_stored
builder_returns(built, next_pc) ==
    /\ IF built = Panic
       THEN /\ result' = Panic
            /\ pc' = "done"
            /\ UNCHANGED encoder
       ELSE /\ encoder' = built
            /\ pc' = next_pc
            /\ UNCHANGED result
    /\ UNCHANGED <<fn_vars, io_vars, file, image, raw_image, params, call, plane, ctx, color,
                   alpha, enc, packaged, codec>>

\* image_file.rs:265-266: Encoder::new().with_num_threads(threads)
builder_with_num_threads ==
    /\ pc = "builder"
    /\ builder_returns(with_num_threads(Encoder_new, params.threads), "with_alpha_quality")

\* image_file.rs:267: .with_alpha_quality(quality as f32)
builder_with_alpha_quality ==
    /\ pc = "with_alpha_quality"
    /\ builder_returns(with_alpha_quality(encoder, params.quality), "with_quality")

\* image_file.rs:268: .with_quality(quality as f32)
builder_with_quality ==
    /\ pc = "with_quality"
    /\ builder_returns(with_quality(encoder, params.quality), "with_speed")

\* image_file.rs:269: .with_speed(speed)
builder_with_speed ==
    /\ pc = "with_speed"
    /\ builder_returns(with_speed(encoder, params.speed), "with_bit_depth")

\* Encoder::with_bit_depth: the bit depth is kept in the configuration
with_bit_depth(self, depth) ==
    IF self = Panic THEN Panic ELSE [bit_depth |-> depth] @@ self

\* Encoder::with_exif_data: the blob is kept in the configuration
with_exif_data(self, exif_data) ==
    IF self = Panic THEN Panic ELSE [exif_data |-> exif_data] @@ self

\* image_file.rs:270: .with_bit_depth(depth)
builder_with_bit_depth ==
    /\ pc = "with_bit_depth"
    /\ builder_returns(with_bit_depth(encoder, params.depth), "with_exif_data")

\* image_file.rs:272-274: the blob is attached when there is one
builder_with_exif_data ==
    /\ pc = "with_exif_data"
    /\ builder_returns(IF image.exif_data # <<>>
                       THEN with_exif_data(encoder, image.exif_data)
                       ELSE encoder,
                       "encode")

\* Encoder::encode, encode.rs:128-145 and 150-157: the choice of the path
encode ==
    /\ pc = "encode"
    /\ IF image.bitmap.has_alpha
       THEN \E off \in Offsets :
                pc' = IF ~check_transparent_pixel(image.bitmap.alpha, off)
                      THEN "encode_rgba" ELSE "encode_rgb"
       ELSE pc' = "encode_rgb"
    /\ UNCHANGED <<fn_vars, io_vars, file, image, raw_image, params, encoder, call, plane, ctx,
                   color, alpha, enc, packaged, codec, result>>

\* Encoder::encode_rgba, encode.rs:117-126, calling encode_raw_planes_8_bit
\* with a color and an alpha producer over the pixels of the buffer; samples
\* names the conversion the color producer maps over the pixels' colors
encode_rgba ==
    /\ pc = "encode_rgba"
    /\ call' = [width |-> image.width, height |-> image.height,
                planes |-> image.width * image.height,
                samples |-> "rgb_to_8_bit_ycbcr",
                alpha |-> Some(image.width * image.height),
                color_pixel_range |-> "Full", bit_depth |-> 8, via |-> "encode_rgba"]
    /\ plane' = "color"
    /\ pc' = "new_context"
    /\ UNCHANGED <<fn_vars, io_vars, file, image, raw_image, params, encoder, ctx, color, alpha,
                   enc, packaged, codec, result>>

\* encode_rgb_internal handing the pixels' alpha to the raw-plane encoder
encode_rgb_with_alpha ==
    /\ pc = "encode_rgb"
    /\ call' = [width |-> image.width, height |-> image.height,
                planes |-> image.width * image.height,
                samples |-> "rgb_to_10_bit_ycbcr",
                alpha |-> Some(image.width * image.height),
                color_pixel_range |-> "Full", bit_depth |-> 10, via |-> "encode_rgb"]
    /\ plane' = "color"
    /\ pc' = "new_context"
    /\ UNCHANGED <<fn_vars, io_vars, file, image, raw_image, params, encoder, ctx, color, alpha,
                   enc, packaged, codec, result>>

\* Encoder::encode_rgb and encode_rgb_internal, encode.rs:210-222, calling
\* encode_raw_planes_10_bit with a color producer and no alpha
encode_rgb ==
    /\ pc = "encode_rgb"
    /\ call' = [width |-> image.width, height |-> image.height,
                planes |-> image.width * image.height,
                samples |-> "rgb_to_10_bit_ycbcr",
                alpha |-> None,
                color_pixel_range |-> "Full", bit_depth |-> 10, via |-> "encode_rgb"]
    /\ plane' = "color"
    /\ pc' = "new_context"
    /\ UNCHANGED <<fn_vars, io_vars, file, image, raw_image, params, encoder, ctx, color, alpha,
                   enc, packaged, codec, result>>

\* producers a caller of the raw-plane API may pass for a width x height
\* image: one item short, exact, one item more
ProducerLens(width, height) ==
    {n \in {width * height - 1, width * height, width * height + 1} : n >= 0}

\* an Encoder a caller of the raw-plane API has built
RawEncoders == {with_num_threads(Encoder_new, t) : t \in ConvThreads}

\* encode.rs:232-241, called directly
encode_raw_planes_8_bit ==
    /\ pc = "idle"
    /\ file = None
    /\ encoder' \in RawEncoders
    /\ \E width \in 1..MaxRawDim, height \in 1..MaxRawDim :
       \E planes \in ProducerLens(width, height),
          a \in {None} \cup {Some(n) : n \in ProducerLens(width, height)} :
           call' = [width |-> width, height |-> height, planes |-> planes,
                    samples |-> "caller", alpha |-> a,
                    color_pixel_range |-> "Full", bit_depth |-> 8, via |-> "api"]
    /\ plane' = "color"
    /\ pc' = "new_context"
    /\ UNCHANGED <<fn_vars, io_vars, file, image, raw_image, params, ctx, color, alpha, enc,
                   packaged, codec, result>>

\* encode.rs:253-262, called directly
encode_raw_planes_10_bit ==
    /\ pc = "idle"
    /\ file = None
    /\ encoder' \in RawEncoders
    /\ \E width \in 1..MaxRawDim, height \in 1..MaxRawDim :
       \E planes \in ProducerLens(width, height),
          a \in {None} \cup {Some(n) : n \in ProducerLens(width, height)} :
           call' = [width |-> width, height |-> height, planes |-> planes,
                    samples |-> "caller", alpha |-> a,
                    color_pixel_range |-> "Full", bit_depth |-> 10, via |-> "api"]
    /\ plane' = "color"
    /\ pc' = "new_context"
    /\ UNCHANGED <<fn_vars, io_vars, file, image, raw_image, params, ctx, color, alpha, enc,
                   packaged, codec, result>>

\* the Av1EncodeConfig encode_raw_planes builds for a plane, encode.rs:286-313
plane_config(p) ==
    IF p = "color"
    THEN color_config(encoder, call.width, call.height, call.color_pixel_range,
                      call.bit_depth)
    ELSE alpha_config(encoder, call.width, call.height, call.bit_depth)

\* the items the producer of a plane yields
produced(p) == IF p = "color" THEN call.planes ELSE call.alpha.v

\* encode_to_av1 returns r for the current plane, dropping its context:
\* after the color plane the alpha plane is encoded if a producer was given
\* (encode.rs:300-316), whatever the color encode returned
encode_to_av1_returns(r) ==
    /\ ctx' = None
    /\ IF plane = "color"
       THEN /\ color' = r
            /\ alpha' = alpha
            /\ IF call.alpha # None
               THEN plane' = "alpha" /\ pc' = "new_context"
               ELSE plane' = "none" /\ pc' = "encode_raw_planes"
       ELSE /\ alpha' = Some(r)
            /\ color' = color
            /\ plane' = "none"
            /\ pc' = "encode_raw_planes"

\* encode.rs:641-642: rav1e_config(p).new_context()? and ctx.new_frame()
new_context ==
    /\ pc = "new_context"
    /\ \/ /\ ctx' = [cfg |-> rav1e_config(plane_config(plane)), frame |-> None,
                     out |-> <<>>, packets |-> 0]
          /\ codec' = [codec EXCEPT ![plane].calls = @ + 2]
          /\ pc' = "init"
          /\ UNCHANGED <<plane, color, alpha>>
       \/ \E e \in NewContextErrors :
              /\ codec' = [codec EXCEPT ![plane].calls = @ + 1, ![plane].err = Some(e)]
              /\ encode_to_av1_returns(Err(e))
    /\ UNCHANGED <<fn_vars, io_vars, file, image, raw_image, params, encoder, call, enc, packaged,
                   result>>

\* a frame initializer that fills the samples the producer lacks with
\* the default sample
init_frame_padded(width, height, items) == Ok(width * height)

\* init_frame_color, encode.rs:585-616: one triple per pixel, row by row
init_frame_color(width, height, planes) ==
    IF planes < width * height THEN Err("TooFewPixels") ELSE Ok(width * height)

\* init_frame_alpha_pix, encode.rs:618-634: one sample per pixel
init_frame_alpha_pix(width, height, planes) ==
    IF planes < width * height THEN Err("TooFewPixels") ELSE Ok(width * height)

\* encode.rs:644: init(&mut frame)?
init ==
    /\ pc = "init"
    /\ LET r == IF plane = "color"
                THEN init_frame_color(call.width, call.height, produced(plane))
                ELSE init_frame_alpha_pix(call.width, call.height, produced(plane))
       IN IF r.tag = "Err"
          THEN encode_to_av1_returns(r)
          ELSE /\ ctx' = [ctx EXCEPT !.frame = Some(r.v)]
               /\ pc' = "send_frame"
               /\ UNCHANGED <<plane, color, alpha>>
    /\ UNCHANGED <<fn_vars, io_vars, file, image, raw_image, params, encoder, call, enc, packaged,
                   codec, result>>

\* encode.rs:645-646: ctx.send_frame(frame)? and ctx.flush()
send_frame ==
    /\ pc = "send_frame"
    /\ \/ /\ codec' = [codec EXCEPT ![plane].calls = @ + 2, ![plane].sent = TRUE]
          /\ ctx' = [ctx EXCEPT !.frame = None]
          /\ pc' = "receive_packet"
          /\ UNCHANGED <<plane, color, alpha>>
       \/ \E e \in SendFrameErrors :
              /\ codec' = [codec EXCEPT ![plane].calls = @ + 1, ![plane].sent = TRUE,
                                        ![plane].err = Some(e)]
              /\ encode_to_av1_returns(Err(e))
    /\ UNCHANGED <<fn_vars, io_vars, file, image, raw_image, params, encoder, call, enc, packaged,
                   result>>

\* the payload bytes of a key-frame packet of a plane
packet_data(p) == IF p = "color" THEN <<1>> ELSE <<2>>

\* the packets receive_packet may hand out for a plane: a key frame, or a
\* frame of another type with a payload of its own
Packets(p) ==
    {[frame_type |-> "KEY", data |-> packet_data(p)],
     [frame_type |-> "INTER", data |-> <<3>>]}

\* a receive loop that appends the payload of every packet
receive_packet_appends_any(out, packet) == out \o packet.data

\* encode.rs:651-656: Ok(packet) appends the payload of a KEY packet only
receive_packet_ok(out, packet) ==
    IF packet.frame_type = "KEY" THEN out \o packet.data ELSE out

\* a receive loop that ends on every status of the codec
receive_packet_breaks_on_error(e) == Ok(ctx.out)

\* encode.rs:658: Err(err) => Err(err)?
receive_packet_error(e) == Err(e)

\* encode.rs:648-661: one turn of the receive loop
receive_packet ==
    /\ pc = "receive_packet"
    /\ \/ /\ ctx.packets < MaxPackets
          /\ \E packet \in Packets(plane) :
                 ctx' = [ctx EXCEPT !.packets = @ + 1,
                                    !.out = receive_packet_ok(@, packet)]
          /\ codec' = [codec EXCEPT ![plane].calls = @ + 1]
          /\ UNCHANGED <<pc, plane, color, alpha>>
       \/ \E status \in {"Encoded", "LimitReached"} :
              /\ codec' = [codec EXCEPT ![plane].calls = @ + 1]
              /\ encode_to_av1_returns(Ok(ctx.out))
       \/ \E e \in ReceivePacketErrors :
              /\ codec' = [codec EXCEPT ![plane].calls = @ + 1, ![plane].err = Some(e)]
              /\ encode_to_av1_returns(receive_packet_error(e))
    /\ UNCHANGED <<fn_vars, io_vars, file, image, raw_image, params, encoder, call, enc, packaged,
                   result>>

\* the container the packager writes: a header, then the color payload,
\* then the alpha payload when there is one (encode.rs:320-329)
Aviffy_to_vec(color_av1, alpha_av1, width, height, bit_depth) ==
    <<0>> \o color_av1 \o (IF alpha_av1 = None THEN <<>> ELSE alpha_av1.v)

\* a tail that packages the color payload whatever the alpha encode returned
encode_raw_planes_result_ignoring_alpha(c, a) ==
    IF c.tag = "Err" THEN c
    ELSE Ok([color |-> c.v, alpha |-> None])

\* encode.rs:318: let (color, alpha) = (color?, alpha.transpose()?)
encode_raw_planes_result(c, a) ==
    IF c.tag = "Err" THEN c
    ELSE IF a # None /\ a.v.tag = "Err" THEN a.v
    ELSE Ok([color |-> c.v, alpha |-> IF a = None THEN None ELSE Some(a.v.v)])

\* encode.rs:318-338: the end of encode_raw_planes, and its return to the
\* caller of the raw-plane API
encode_raw_planes ==
    /\ pc = "encode_raw_planes"
    /\ LET r == encode_raw_planes_result(color, alpha)
       IN /\ IF r.tag = "Err"
             THEN /\ enc' = r
                  /\ UNCHANGED packaged
             ELSE /\ packaged' = Some([color |-> r.v.color, alpha |-> r.v.alpha,
                                       width |-> call.width, height |-> call.height,
                                       bit_depth |-> call.bit_depth])
                  /\ enc' = Ok([avif_file |-> Aviffy_to_vec(r.v.color, r.v.alpha,
                                                            call.width, call.height,
                                                            call.bit_depth),
                                color_byte_size |-> Len(r.v.color),
                                alpha_byte_size |-> IF r.v.alpha = None THEN 0
                                                    ELSE Len(r.v.alpha.v)])
    /\ IF call.via = "api"
       THEN pc' = "done" /\ result' = enc'
       ELSE pc' = "encode_returns" /\ UNCHANGED result
    /\ UNCHANGED <<fn_vars, io_vars, file, image, raw_image, params, encoder, call, plane, ctx,
                   color, alpha, codec>>

\* a store that empties the image's bytes to a bare header before it
\* looks at the result
encode_stores_before_check(img, r) ==
    [img EXCEPT !.encoded_data = IF r.tag = "Err" THEN <<0>> ELSE r.v.avif_file]

\* encode.rs:146 and 157-163: image.encoded_data = enc?.avif_file
encode_stores(img, r) ==
    IF r.tag = "Err" THEN img ELSE [img EXCEPT !.encoded_data = r.v.avif_file]

\* encode.rs:146-148 and 157-165, image_file.rs:276-282: Encoder::encode
\* stores the file or passes the error on, and convert_to_avif_stored
\* returns the stored length or the error
encode_returns ==
    /\ pc = "encode_returns"
    /\ image' = encode_stores(image, enc)
    /\ result' = IF enc.tag = "Err" THEN enc ELSE Ok(Len(enc.v.avif_file))
    /\ pc' = "done"
    /\ UNCHANGED <<fn_vars, io_vars, file, raw_image, params, encoder, call, plane, ctx, color,
                   alpha, enc, packaged, codec>>

Next ==
    \/ convert_to_avif_stored
    \/ load_image_data_from_reader
    \/ builder_with_num_threads
    \/ builder_with_alpha_quality
    \/ builder_with_quality
    \/ builder_with_speed
    \/ builder_with_bit_depth
    \/ builder_with_exif_data
    \/ encode
    \/ encode_rgba
    \/ encode_rgb
    \/ encode_raw_planes_8_bit
    \/ encode_raw_planes_10_bit
    \/ new_context
    \/ init
    \/ send_frame
    \/ receive_packet
    \/ encode_raw_planes
    \/ encode_returns

Spec == Init /\ [][Next]_vars

(***************************************************************************)
(* Files.  A path is a directory and a file name; a file name is a stem, an *)
(* extension and whether it starts with a dot, and a stem is a byte string. *)
(* The path of a directory has the empty file name.  The disk maps the      *)
(* paths of the files that exist to their bytes.                            *)
(***************************************************************************)
DirPath(dir) == [dir |-> dir, hidden |-> FALSE, stem |-> <<>>, ext |-> ""]

\* Path::is_dir, image_file.rs:292
is_dir(p) == p.stem = <<>> /\ p.ext = ""

\* dir.join(format!("{fname}.avif")), image_file.rs:289 and 293
AvifPath(dir, fname) == [dir |-> dir, hidden |-> FALSE, stem |-> fname, ext |-> "avif"]

\* fpath.join(format!(".{fname}.tmp")), image_file.rs:306
TempPath(dir, fname) == [dir |-> dir, hidden |-> TRUE, stem |-> fname, ext |-> "tmp"]

\* fs::write: creates the file or replaces its bytes
fs_write(d, p, data) ==
    [q \in DOMAIN d \cup {p} |-> IF q = p THEN data ELSE d[q]]

\* fs::rename: moves the file, replacing a file at the destination; fails
\* when the source does not exist
fs_rename(d, from, to) ==
    IF from \notin DOMAIN d THEN Err("NotFound")
    ELSE Ok([q \in (DOMAIN d \ {from}) \cup {to} |-> IF q = to THEN d[from] ELSE d[q]])

(***************************************************************************)
(* Name::generate_name, name_fun.rs:21-44.  A digest is modelled by the     *)
(* bytes it is taken of behind a byte naming the function, so that equal    *)
(* names mean equal data; random_string draws from RandomNames.             *)
(***************************************************************************)
NameTypes == {"MD5", "SHA256", "Blake2", "Random", "Same"}

RandomNames == {<<114>>}

generate_name(self, data, random) ==
    CASE self = "MD5" -> <<5>> \o data.encoded_data
      [] self = "SHA256" -> <<6>> \o data.encoded_data
      [] self = "Blake2" -> <<2>> \o data.encoded_data
      [] self = "Random" -> random
      [] self = "Same" -> data.metadata.name

(***************************************************************************)
(* ImageFile::save_avif, image_file.rs:285-322, run by job j on the         *)
(* ImageFile it owns.  Each access to the disk is a step of its own, so     *)
(* that the jobs of a thread pool interleave between them.                  *)
(***************************************************************************)
\* a job: the ImageFile, the arguments of save_avif, the position of the
\* closure, the locals of save_avif and what the calls returned
NewJob(item, out, name_type, keep, at) ==
    [item |-> item, out |-> out, name_type |-> name_type, keep |-> keep, pc |-> at,
     opened |-> None, fname |-> <<>>, target_path |-> None, conv |-> None,
     saved |-> None]

\* the watcher, when there is one, reports the creation of a file
created(p) ==
    IF main.mode = "watch" /\ p \notin DOMAIN disk
    THEN [main EXCEPT !.rx = Append(@, p)]
    ELSE main

\* image_file.rs:291-297
target_path(path, avif_name, fname) ==
    IF path = None THEN avif_name
    ELSE IF is_dir(path.v) THEN AvifPath(path.v.dir, fname)
    ELSE path.v

\* image_file.rs:286-299: the name, the canonical source path (an error when
\* the source does not exist) and the target
save_avif(j) ==
    /\ jobs[j].pc = "save_avif"
    /\ \E random \in RandomNames :
           LET self == jobs[j].item
               fname == generate_name(jobs[j].name_type, self, random)
               avif_name == AvifPath(self.metadata.path.dir, fname)
           IN jobs' = [jobs EXCEPT ![j] =
                  IF self.metadata.path \notin DOMAIN disk
                  THEN [@ EXCEPT !.pc = "saved", !.saved = Err("canonicalize")]
                  ELSE [@ EXCEPT !.fname = fname,
                                 !.target_path =
                                     Some(target_path(jobs[j].out, avif_name, fname)),
                                 !.pc = IF jobs[j].keep THEN "write" ELSE "write_temp"]]
    /\ UNCHANGED <<fn_vars, conv_vars, disk, stats, main>>

\* image_file.rs:306-307: fs::write(&temp_file_path, &self.encoded_data)
save_avif_write_temp(j) ==
    /\ jobs[j].pc = "write_temp"
    /\ LET temp_file_path == TempPath(jobs[j].item.metadata.path.dir, jobs[j].fname)
       IN /\ disk' = fs_write(disk, temp_file_path, jobs[j].item.encoded_data)
          /\ main' = created(temp_file_path)
    /\ jobs' = [jobs EXCEPT ![j].pc = "rename_temp"]
    /\ UNCHANGED <<fn_vars, conv_vars, stats>>

\* image_file.rs:310: fs::rename(&temp_file_path, &target_path)?
save_avif_rename_temp(j) ==
    /\ jobs[j].pc = "rename_temp"
    /\ LET temp_file_path == TempPath(jobs[j].item.metadata.path.dir, jobs[j].fname)
           r == fs_rename(disk, temp_file_path, jobs[j].target_path.v)
       IN IF r.tag = "Err"
          THEN /\ jobs' = [jobs EXCEPT ![j].pc = "saved", ![j].saved = r]
               /\ UNCHANGED disk
          ELSE /\ disk' = r.v
               /\ jobs' = [jobs EXCEPT
                      ![j].pc = IF jobs[j].out = None THEN "rename_source" ELSE "saved",
                      ![j].saved = IF jobs[j].out = None THEN None ELSE Ok("unit")]
    /\ UNCHANGED <<fn_vars, conv_vars, stats, main>>

\* image_file.rs:312-316: fs::rename(&binding, &avif_name)?
save_avif_rename_source(j) ==
    /\ jobs[j].pc = "rename_source"
    /\ LET binding == jobs[j].item.metadata.path
           avif_name == AvifPath(binding.dir, jobs[j].fname)
           r == fs_rename(disk, binding, avif_name)
       IN /\ disk' = IF r.tag = "Err" THEN disk ELSE r.v
          /\ jobs' = [jobs EXCEPT ![j].pc = "saved",
                                  ![j].saved = IF r.tag = "Err" THEN r ELSE Ok("unit")]
    /\ UNCHANGED <<fn_vars, conv_vars, stats, main>>

\* image_file.rs:319-321: fs::write(&target_path, &self.encoded_data)
save_avif_write(j) ==
    /\ jobs[j].pc = "write"
    /\ disk' = fs_write(disk, jobs[j].target_path.v, jobs[j].item.encoded_data)
    /\ main' = created(jobs[j].target_path.v)
    /\ jobs' = [jobs EXCEPT ![j].pc = "saved", ![j].saved = Ok("unit")]
    /\ UNCHANGED <<fn_vars, conv_vars, stats>>

(***************************************************************************)
(* save_avif as single_file_conv calls it, avif.rs:312-314: on an image     *)
(* file in the directory "in", with any name type, output path and keep.    *)
(***************************************************************************)
\* the bytes of an image file before any conversion
SourceData == <<137, 80>>

\* the ImageFile of a source file, new_from_path at image_file.rs:58-66,
\* holding encoded_data
ImageOf(dir, stem, ext, encoded_data) ==
    [metadata |-> [path |-> [dir |-> dir, hidden |-> FALSE, stem |-> stem, ext |-> ext],
                   name |-> stem, extension |-> ext],
     encoded_data |-> encoded_data]

SaveExtensions == {"png", "avif"}
SaveOutputs ==
    {None, Some(DirPath("in")), Some(DirPath("out")), Some(AvifPath("out", <<111>>))}
SaveData == {<<>>, <<0, 1>>}

InitSave ==
    /\ fn = "none" /\ arg = None /\ ret = None
    /\ NoConversion
    /\ \E ext \in SaveExtensions, encoded_data \in SaveData, out \in SaveOutputs,
          name_type \in NameTypes, keep \in BOOLEAN :
           LET item == ImageOf("in", <<97>>, ext, encoded_data)
           IN /\ disk = fs_write(<<>>, item.metadata.path, SourceData)
              /\ jobs = <<NewJob(item, out, name_type, keep, "save_avif")>>
    /\ stats = [SUCCESS_COUNT |-> 0, FINAL_STATS |-> 0, ITEMS_PROCESSED |-> 0]
    /\ main = [mode |-> "single"]

NextSave ==
    \/ \E j \in DOMAIN jobs : save_avif(j)
    \/ \E j \in DOMAIN jobs : save_avif_write_temp(j)
    \/ \E j \in DOMAIN jobs : save_avif_rename_temp(j)
    \/ \E j \in DOMAIN jobs : save_avif_rename_source(j)
    \/ \E j \in DOMAIN jobs : save_avif_write(j)

SpecSave == InitSave /\ [][NextSave]_vars

(***************************************************************************)
(* Avif::batch_conv, avif.rs:94-166, and the closure each item runs in the  *)
(* thread pool, avif.rs:119-163.  convert_to_avif_stored is taken by its    *)
(* outcome: Ok with the item's encoded_data stored, or Err with             *)
(* encoded_data left empty.                                                 *)
(***************************************************************************)
\* the bytes convert_to_avif_stored stores for the item of job j
EncodedData(j) == <<0, j>>

\* the jobs that occupy a worker thread of the pool
Running == {j \in DOMAIN jobs : jobs[j].pc \notin {"found", "queued", "finished", "panicked"}}

\* avif.rs:107-109: calculate_tread_count and ThreadPool::with_name
batch_conv ==
    /\ main.mode = "batch"
    /\ main.pc = "parse_files"
    /\ LET job_num == calculate_tread_count(main.threads, Len(jobs))
       IN main' = IF job_num = Panic
                  THEN [main EXCEPT !.pc = "panicked"]
                  ELSE [main EXCEPT !.pc = "execute", !.job_num = Some(job_num)]
    /\ UNCHANGED <<fn_vars, conv_vars, disk, jobs, stats>>

\* avif.rs:117-119: for mut item in paths.drain(..) { pool.execute(..) }
pool_execute ==
    /\ main.mode = "batch"
    /\ main.pc = "execute"
    /\ IF main.next > Len(jobs)
       THEN /\ main' = [main EXCEPT !.pc = "join"]
            /\ UNCHANGED jobs
       ELSE /\ main' = [main EXCEPT !.next = @ + 1]
            /\ jobs' = [jobs EXCEPT ![main.next].pc = "queued"]
    /\ UNCHANGED <<fn_vars, conv_vars, disk, stats>>

\* a free worker thread takes the oldest queued job
job_start(j) ==
    /\ main.mode = "batch"
    /\ jobs[j].pc = "queued"
    /\ \A k \in 1..(j - 1) : jobs[k].pc # "queued"
    /\ Cardinality(Running) < main.job_num.v.spawn_threads
    /\ jobs' = [jobs EXCEPT ![j].pc = "convert"]
    /\ UNCHANGED <<fn_vars, conv_vars, disk, stats, main>>

\* avif.rs:129-136: item.convert_to_avif_stored(..)
job_convert(j) ==
    /\ main.mode = "batch"
    /\ jobs[j].pc = "convert"
    /\ \/ jobs' = [jobs EXCEPT ![j].item.encoded_data = EncodedData(j),
                               ![j].conv = Ok(Len(EncodedData(j))),
                               ![j].pc = "success_count"]
       \/ jobs' = [jobs EXCEPT ![j].conv = Err("convert"),
                               ![j].pc = IF main.benchmark THEN "items_processed"
                                         ELSE "save_avif"]
    /\ UNCHANGED <<fn_vars, conv_vars, disk, stats, main>>

\* avif.rs:137: SUCCESS_COUNT.fetch_add(1, Ordering::SeqCst)
job_success_count(j) ==
    /\ jobs[j].pc = "success_count"
    /\ stats' = [stats EXCEPT !.SUCCESS_COUNT = @ + 1]
    /\ jobs' = [jobs EXCEPT ![j].pc = "final_stats"]
    /\ UNCHANGED <<fn_vars, conv_vars, disk, main>>

\* avif.rs:138-141: FINAL_STATS.fetch_add(r_size, ..); if !self.benchmark
job_final_stats(j) ==
    /\ jobs[j].pc = "final_stats"
    /\ stats' = [stats EXCEPT !.FINAL_STATS = @ + jobs[j].conv.v]
    /\ jobs' = [jobs EXCEPT ![j].pc = IF main.benchmark THEN "items_processed"
                                      ELSE "save_avif"]
    /\ UNCHANGED <<fn_vars, conv_vars, disk, main>>

\* avif.rs:142-143: item.save_avif(..).unwrap()
job_save_unwrap(j) == IF jobs[j].saved.tag = "Err" THEN "panicked" ELSE "items_processed"

job_saved(j) ==
    /\ main.mode = "batch"
    /\ jobs[j].pc = "saved"
    /\ jobs' = [jobs EXCEPT ![j].pc = job_save_unwrap(j)]
    /\ UNCHANGED <<fn_vars, conv_vars, disk, stats, main>>

\* avif.rs:155: ITEMS_PROCESSED.fetch_add(1, Ordering::SeqCst)
job_items_processed(j) ==
    /\ jobs[j].pc = "items_processed"
    /\ stats' = [stats EXCEPT !.ITEMS_PROCESSED = @ + 1]
    /\ jobs' = [jobs EXCEPT ![j].pc = "finished"]
    /\ UNCHANGED <<fn_vars, conv_vars, disk, main>>

\* avif.rs:166: pool.join() returns when no job is queued or running
pool_join ==
    /\ main.mode = "batch"
    /\ main.pc = "join"
    /\ \A j \in DOMAIN jobs : jobs[j].pc \in {"finished", "panicked"}
    /\ main' = [main EXCEPT !.pc = "joined"]
    /\ UNCHANGED <<fn_vars, conv_vars, disk, jobs, stats>>

\* the files parse_files finds, sorted by name (avif.rs:100-103)
BatchFiles ==
    {<<>>,
     <<ImageOf("in", <<97>>, "png", <<>>)>>,
     <<ImageOf("in", <<97>>, "jpg", <<>>), ImageOf("in", <<97>>, "png", <<>>)>>,
     <<ImageOf("in", <<97>>, "png", <<>>), ImageOf("in", <<98>>, "png", <<>>)>>}

BatchNameTypes == {"MD5", "Same"}
BatchThreads == {1, 2}

InitBatch ==
    /\ fn = "none" /\ arg = None /\ ret = None
    /\ NoConversion
    /\ \E paths \in BatchFiles, name_type \in BatchNameTypes, keep \in BOOLEAN,
          benchmark \in BOOLEAN, threads \in BatchThreads :
           /\ disk = [p \in {paths[i].metadata.path : i \in DOMAIN paths} |-> SourceData]
           /\ jobs = [i \in DOMAIN paths |-> NewJob(paths[i], None, name_type, keep, "found")]
           /\ main = [mode |-> "batch", pc |-> "parse_files", keep |-> keep,
                      name_type |-> name_type, benchmark |-> benchmark,
                      threads |-> threads, job_num |-> None, next |-> 1]
    /\ stats = [SUCCESS_COUNT |-> 0, FINAL_STATS |-> 0, ITEMS_PROCESSED |-> 0]

NextBatch ==
    \/ batch_conv
    \/ pool_execute
    \/ pool_join
    \/ \E j \in DOMAIN jobs : job_start(j)
    \/ \E j \in DOMAIN jobs : job_convert(j)
    \/ \E j \in DOMAIN jobs : job_success_count(j)
    \/ \E j \in DOMAIN jobs : job_final_stats(j)
    \/ \E j \in DOMAIN jobs : save_avif(j)
    \/ \E j \in DOMAIN jobs : save_avif_write_temp(j)
    \/ \E j \in DOMAIN jobs : save_avif_rename_temp(j)
    \/ \E j \in DOMAIN jobs : save_avif_rename_source(j)
    \/ \E j \in DOMAIN jobs : save_avif_write(j)
    \/ \E j \in DOMAIN jobs : job_saved(j)
    \/ \E j \in DOMAIN jobs : job_items_processed(j)

SpecBatch == InitBatch /\ [][NextBatch]_vars

(***************************************************************************)
(* Watch::watch, watch.rs:36-72, and Watch::conv_file, watch.rs:74-98: the  *)
(* watcher sends the events of the watched directory "in" to rx, the main   *)
(* thread starts one pool job for every path of a Create(File) event.       *)
(***************************************************************************)
MaxCreated == 1
MaxJobs == 3

\* the k-th image file another program creates in the watched directory
ExternalFile(k) == [dir |-> "in", hidden |-> FALSE, stem |-> <<96 + k>>, ext |-> "png"]

\* image_file.rs:42-52: the extensions new_from_path accepts
ImageExtensions == {"jpg", "png", "jpeg", "jfif", "webp", "bmp", "avif"}

\* image_file.rs:40-73: the extension check, then path.metadata()?
new_from_path_checks(d, path) ==
    IF path.ext \notin ImageExtensions THEN Err("Unsupported image format")
    ELSE IF path \notin DOMAIN d THEN Err("metadata")
    ELSE Ok("unit")

\* another program creates an image file in the watched directory
external_create ==
    /\ main.mode = "watch"
    /\ Cardinality(main.external) < MaxCreated
    /\ LET p == ExternalFile(Cardinality(main.external) + 1)
       IN /\ disk' = fs_write(disk, p, SourceData)
          /\ main' = [created(p) EXCEPT !.external = @ \cup {p}]
    /\ UNCHANGED <<fn_vars, conv_vars, jobs, stats>>

\* watch.rs:51-61: for result in rx { .. pool.execute(..) }
watch_recv ==
    /\ main.mode = "watch"
    /\ main.rx # <<>>
    /\ Len(jobs) < MaxJobs
    /\ LET item == Head(main.rx)
       IN jobs' = Append(jobs, NewJob([ImageOf(item.dir, item.stem, item.ext, <<>>)
                                          EXCEPT !.metadata.path = item],
                                      None, main.name_type, main.keep, "queued"))
    /\ main' = [main EXCEPT !.rx = Tail(@)]
    /\ UNCHANGED <<fn_vars, conv_vars, disk, stats>>

\* watch.rs:75: a free worker thread runs ImageFile::new_from_path(path)?
conv_file(j) ==
    /\ main.mode = "watch"
    /\ jobs[j].pc = "queued"
    /\ \A k \in 1..(j - 1) : jobs[k].pc # "queued"
    /\ Cardinality(Running) < sys_threads(main.threads)
    /\ LET r == new_from_path_checks(disk, jobs[j].item.metadata.path)
       IN jobs' = [jobs EXCEPT ![j].opened = r,
                               ![j].pc = IF r.tag = "Err" THEN "panicked" ELSE "convert"]
    /\ UNCHANGED <<fn_vars, conv_vars, disk, stats, main>>

\* watch.rs:80-87: image.convert_to_avif_stored(..)?
conv_file_convert(j) ==
    /\ main.mode = "watch"
    /\ jobs[j].pc = "convert"
    /\ \/ jobs' = [jobs EXCEPT ![j].item.encoded_data = EncodedData(j),
                               ![j].conv = Ok(Len(EncodedData(j))),
                               ![j].pc = "save_avif"]
       \/ jobs' = [jobs EXCEPT ![j].conv = Err("convert"), ![j].pc = "panicked"]
    /\ UNCHANGED <<fn_vars, conv_vars, disk, stats, main>>

\* watch.rs:89 and 59: image.save_avif(..)? and conv_file(..).unwrap()
conv_file_saved(j) ==
    /\ main.mode = "watch"
    /\ jobs[j].pc = "saved"
    /\ jobs' = [jobs EXCEPT ![j].pc = IF jobs[j].saved.tag = "Err" THEN "panicked"
                                      ELSE "finished"]
    /\ UNCHANGED <<fn_vars, conv_vars, disk, stats, main>>

WatchNameTypes == {"MD5", "Same"}
WatchThreads == {0, 1}

InitWatch ==
    /\ fn = "none" /\ arg = None /\ ret = None
    /\ NoConversion
    /\ disk = <<>>
    /\ jobs = <<>>
    /\ stats = [SUCCESS_COUNT |-> 0, FINAL_STATS |-> 0, ITEMS_PROCESSED |-> 0]
    /\ \E name_type \in WatchNameTypes, keep \in BOOLEAN, threads \in WatchThreads :
           main = [mode |-> "watch", keep |-> keep, name_type |-> name_type,
                   threads |-> threads, rx |-> <<>>, external |-> {}]

NextWatch ==
    \/ external_create
    \/ watch_recv
    \/ \E j \in DOMAIN jobs : conv_file(j)
    \/ \E j \in DOMAIN jobs : conv_file_convert(j)
    \/ \E j \in DOMAIN jobs : save_avif(j)
    \/ \E j \in DOMAIN jobs : save_avif_write_temp(j)
    \/ \E j \in DOMAIN jobs : save_avif_rename_temp(j)
    \/ \E j \in DOMAIN jobs : save_avif_rename_source(j)
    \/ \E j \in DOMAIN jobs : save_avif_write(j)
    \/ \E j \in DOMAIN jobs : conv_file_saved(j)

SpecWatch == InitWatch /\ [][NextWatch]_vars

\* C1: check_transparent_pixel returns true exactly when every alpha sample
\* of the pixel sequence is 255, as a per-pixel scan does, whatever the
\* length of the sequence and the alignment of the alpha buffer.
C1_ScanParity ==
    (fn = "check_transparent_pixel" /\ ret # None) =>
        (ret.v <=> \A i \in 1..Len(arg.image) : arg.image[i] = Opaque)

\* the bitmap has an alpha channel and some pixel is not fully opaque
HasTransparency(bitmap) ==
    /\ bitmap.has_alpha
    /\ \E i \in DOMAIN bitmap.alpha : bitmap.alpha[i] # Opaque

\* C2: when Encoder::encode is given a bitmap with an alpha channel in which
\* some pixel, at any position, has alpha # 255, it takes the encode_rgba
\* path with a color and an alpha producer and never the encode_rgb path.
C2_TransparencyKept ==
    (file # None /\ HasTransparency(image.bitmap))
        => /\ pc # "encode_rgb"
           /\ call # None => (call.via = "encode_rgba" /\ call.alpha # None)

\* C3: when the bitmap has no alpha channel, or has one in which every
\* sample is 255, Encoder::encode encodes through encode_rgb only: no alpha
\* plane is encoded, the packager is given no alpha payload, and the
\* reported alpha_byte_size is 0.
C3_OpaqueEncodesRgbOnly ==
    (file # None /\ ~HasTransparency(image.bitmap))
        => /\ pc # "encode_rgba"
           /\ call # None => (call.via = "encode_rgb" /\ call.alpha = None)
           /\ codec["alpha"].calls = 0
           /\ alpha = None
           /\ packaged # None => packaged.v.alpha = None
           /\ (enc # None /\ enc.tag = "Ok") => enc.v.alpha_byte_size = 0

C3_Witness ==
    /\ file # None
    /\ image.bitmap.has_alpha
    /\ image.bitmap.alpha # <<>>
    /\ ~HasTransparency(image.bitmap)
    /\ pc = "done"
    /\ packaged # None
    /\ enc.tag = "Ok"

\* the producer given for plane p yields fewer than width * height items
Short(p) ==
    /\ call # None
    /\ IF p = "color" THEN call.planes < call.width * call.height
       ELSE call.alpha # None /\ call.alpha.v < call.width * call.height

\* what encode_to_av1 returned for plane p, None before it has
PlaneResult(p) == IF p = "color" THEN color ELSE IF alpha = None THEN None ELSE alpha.v

\* no frame of plane p was sent, the plane has no payload, and no AVIF file
\* was built
NothingEncoded(p) ==
    /\ ~codec[p].sent
    /\ PlaneResult(p) # None => PlaneResult(p).tag = "Err"
    /\ packaged = None
    /\ enc # None => enc.tag = "Err"

\* C4, as stated: a producer that yields fewer than width * height items
\* makes encode_raw_planes return TooFewPixels, with no frame sent, no
\* payload and no AVIF bytes.
C4_ShortProducerIsTooFewPixels ==
    \A p \in {"color", "alpha"} :
        Short(p) => /\ NothingEncoded(p)
                    /\ enc # None => enc = Err("TooFewPixels")

\* C4, amended: a producer that yields fewer than width * height items makes
\* encode_raw_planes return an error and never an EncodedImage; the error is
\* TooFewPixels unless creating the codec context of that plane failed
\* first, or the short producer is the alpha one and the color encode
\* failed, whose error is then returned. In every case no frame of that
\* plane is sent, the plane has no payload, no AVIF bytes are returned and
\* nothing is padded.
C4_ShortProducerFails ==
    \A p \in {"color", "alpha"} :
        Short(p) =>
            /\ NothingEncoded(p)
            /\ PlaneResult(p) # None =>
                   PlaneResult(p) = Err(IF codec[p].err # None THEN codec[p].err.v
                                        ELSE "TooFewPixels")
            /\ enc # None =>
                   enc = IF p = "alpha" /\ color.tag = "Err" THEN color
                         ELSE PlaneResult(p)

C4_Witness ==
    /\ Short("alpha")
    /\ ~Short("color")
    /\ color.tag = "Ok"
    /\ codec["alpha"].calls > 0
    /\ enc = Err("TooFewPixels")
    /\ pc = "done"

\* C5: the packager runs only after the color encode, and the alpha encode
\* when an alpha producer was given, have both returned Ok, on exactly their
\* payloads; when a plane encode fails encode_raw_planes returns that error
\* (the color one first) and never an EncodedImage.
C5_PackagerAfterBothOk ==
    /\ packaged # None =>
           /\ color # None /\ color.tag = "Ok"
           /\ packaged.v.color = color.v
           /\ IF call.alpha = None THEN packaged.v.alpha = None
              ELSE /\ alpha # None /\ alpha.v.tag = "Ok"
                   /\ packaged.v.alpha = Some(alpha.v.v)
    /\ enc # None =>
           IF color.tag = "Err" THEN enc = color /\ packaged = None
           ELSE IF alpha # None /\ alpha.v.tag = "Err"
                THEN enc = alpha.v /\ packaged = None
                ELSE enc.tag = "Ok" /\ packaged # None

C5_Witness ==
    /\ enc # None
    /\ color.tag = "Ok"
    /\ color.v # <<>>
    /\ alpha # None
    /\ alpha.v.tag = "Err"
    /\ enc = alpha.v
    /\ packaged = None

\* C6: convert_to_avif_stored on a file whose decoded width is below 32
\* returns the width-too-small error, whatever the height, the format, the
\* pixels and remove_alpha; no encoder is built or invoked and encoded_data
\* stays empty.
C6_NarrowWidthRejected ==
    (raw_image # None /\ raw_image.v.width < MinWidth)
        => /\ pc = "done"
           /\ result = Err("Image width too small for encode!")
           /\ encoder = None
           /\ call = None
           /\ codec = NoCodecUse
           /\ image.encoded_data = <<>>

C6_Witness ==
    /\ raw_image # None
    /\ raw_image.v.width = MinWidth - 1
    /\ raw_image.v.height = MaxHeight
    /\ file.format = "Jpeg"
    /\ HasTransparency(file)
    /\ params.remove_alpha
    /\ result.tag = "Err"

\* C7, as stated: an error of new_context, send_frame or receive_packet is
\* what encode_to_av1 returns for the plane and what Encoder::encode returns
\* to its caller.
C7_CodecErrorIsReturned ==
    \A p \in {"color", "alpha"} :
        codec[p].err # None =>
            /\ PlaneResult(p) = Err(codec[p].err.v)
            /\ (pc = "done" /\ call.via # "api") => result = Err(codec[p].err.v)

\* the result of the conversion once a codec error of plane p was reported
CodecErrorOutcome(p) ==
    codec[p].err # None =>
        /\ PlaneResult(p) = Err(codec[p].err.v)
        /\ (pc = "done" /\ call.via # "api") =>
               result = IF color.tag = "Err" THEN color ELSE Err(codec[p].err.v)

\* C7, amended: an error of new_context, send_frame or receive_packet is
\* what encode_to_av1 returns for that plane, and the codec is not called
\* for that plane again; Encoder::encode returns the error to its caller,
\* except that an error of the alpha encode is dropped when the color
\* encode failed too: the color encode's error is then the one returned.
C7_CodecErrorPropagates ==
    /\ [](\A p \in {"color", "alpha"} : CodecErrorOutcome(p))
    /\ [][\A p \in {"color", "alpha"} : codec[p].err # None => codec'[p] = codec[p]]_vars

C7_Witness ==
    /\ pc = "done"
    /\ call # None
    /\ call.via = "encode_rgba"
    /\ codec["color"].err = Some("Failure")
    /\ codec["alpha"].err = Some("EnoughData")
    /\ result = Err("Failure")

\* C9: quality_to_quantizer never increases with the quality over 1..=100;
\* quality 100 gives quantizer 0 and quality 1 the largest quantizer.
C9_Monotonic ==
    (fn = "quality_to_quantizer" /\ ret # None) =>
        /\ ret.v[1] >= ret.v[2]
        /\ (arg[2] = MaxQuality => ret.v[2] = 0)
        /\ (arg[1] = MinQuality => \A q \in MinQuality..MaxQuality :
                                       quality_to_quantizer(q) <= ret.v[1])

\* two qualities on either side of a piece boundary have been mapped
C9_Witness ==
    /\ fn = "quality_to_quantizer" /\ ret # None
    /\ arg = <<84, 85>>
    /\ ret.v[1] > ret.v[2]

\* the quantizers a quality in 1..=100 maps to
ValidQuantizers == {quality_to_quantizer(q) : q \in MinQuality..MaxQuality}

\* C8: a builder method given a value outside its range panics and returns
\* no Encoder; every Encoder that exists has a speed in 1..=10 and
\* quantizers that come from a quality in 1..=100.
C8_BuilderFailsFast ==
    fn = "Encoder" =>
        /\ (/\ arg # None
            /\ \/ (arg.method \in {"with_quality", "with_alpha_quality"}
                    /\ arg.v \notin MinQuality..MaxQuality)
               \/ (arg.method = "with_speed" /\ arg.v \notin MinSpeed..MaxSpeed))
           => ret = Panic
        /\ ret # Panic =>
               /\ ret.speed \in MinSpeed..MaxSpeed
               /\ ret.quantizer \in ValidQuantizers
               /\ ret.alpha_quantizer \in ValidQuantizers

\* with_quality has been called with a quality above the range
C8_Witness ==
    /\ fn = "Encoder" /\ arg # None
    /\ arg.method = "with_quality" /\ arg.v = MaxQuality + 1
    /\ ret = Panic

\* C10: the tile count rav1e_config requests for a plane is the thread
\* budget or the number of min_tile_size squares that fit in the image
\* area, whichever is smaller, with min_tile_size taken from the speed
\* profile of that plane's own quantizer.
TilesAreMin(cfg, self, quantizer) ==
    LET mts == from_my_preset(self.speed, quantizer).min_tile_size
        area == arg.width * arg.height
    IN /\ cfg.threads = self.threads
       /\ cfg.tiles <= self.threads
       /\ cfg.tiles * mts * mts <= area
       /\ (cfg.tiles = self.threads \/ (cfg.tiles + 1) * mts * mts > area)

C10_TileCount ==
    fn = "rav1e_config" =>
        /\ ret.color # None => TilesAreMin(ret.color.v, arg.self, arg.self.quantizer)
        /\ ret.alpha # None => TilesAreMin(ret.alpha.v, arg.self, arg.self.alpha_quantizer)

\* an alpha plane whose tile count is set by the image area, below the
\* thread budget, with a profile that differs from the color plane's
C10_Witness ==
    /\ fn = "rav1e_config" /\ ret.alpha # None
    /\ ret.alpha.v.tiles > 0
    /\ ret.alpha.v.tiles < arg.self.threads
    /\ from_my_preset(arg.self.speed, arg.self.quantizer).min_tile_size
           # from_my_preset(arg.self.speed, arg.self.alpha_quantizer).min_tile_size

\* the largest sample of a bit depth
DepthMax(depth) == Pow2(depth) - 1

\* C11, as stated: for every RGB triple the rounded Y, Cb and Cr of
\* rgb_to_8_bit_ycbcr lie in 0..=255 and those of rgb_to_10_bit_ycbcr in
\* 0..=1023, so the integer cast never has to saturate.
C11_RoundedInRange ==
    ret # None =>
        \A i \in 1..3 : /\ ret.v.rounded[i] \in 0..DepthMax(ret.v.depth)
                        /\ ret.v.out[i] = ret.v.rounded[i]

\* C11, amended: Y, Cb and Cr of rgb_to_8_bit_ycbcr lie in 0..=255 and
\* those of rgb_to_10_bit_ycbcr in 0..=1023.  At depth 10 they are the
\* rounded values themselves.  At depth 8 the rounded Cb of pure blue
\* (0, 0, 255) and the rounded Cr of pure red (255, 0, 0) are 256, which
\* the saturating cast turns into 255; every other rounded value is in
\* range and is returned as it is.
C11_OutputInRange ==
    ret # None =>
        \A i \in 1..3 :
            /\ ret.v.out[i] \in 0..DepthMax(ret.v.depth)
            /\ ret.v.rounded[i] \in 0..(DepthMax(ret.v.depth) + 1)
            /\ ret.v.out[i] = Min(ret.v.rounded[i], DepthMax(ret.v.depth))
            /\ ret.v.rounded[i] > DepthMax(ret.v.depth) =>
                   /\ ret.v.depth = 8
                   /\ \/ i = 2 /\ arg = [r |-> 0, g |-> 0, b |-> 255]
                      \/ i = 3 /\ arg = [r |-> 255, g |-> 0, b |-> 0]

C11_Witness ==
    /\ ret # None
    /\ fn = "rgb_to_8_bit_ycbcr"
    /\ arg = [r |-> 0, g |-> 0, b |-> 255]
    /\ ret.v.rounded[2] = 256
    /\ ret.v.out[2] = 255

\* the inverse full-range BT.601 transform of 8-bit Y, Cb, Cr, in
\* millionths of a sample: R = Y + 1.402 Cr', G = Y - 0.344136 Cb' -
\* 0.714136 Cr', B = Y + 1.772 Cb', with Cb' = Cb - 128 and Cr' = Cr - 128
InverseBt601(yuv) ==
    [r |-> 1000000 * yuv[1] + 1402000 * (yuv[3] - 128),
     g |-> 1000000 * yuv[1] - 344136 * (yuv[2] - 128) - 714136 * (yuv[3] - 128),
     b |-> 1000000 * yuv[1] + 1772000 * (yuv[2] - 128)]

Distance(a, b) == IF a >= b THEN a - b ELSE b - a

\* C20: for every RGB triple, rgb_to_8_bit_ycbcr followed by the inverse
\* full-range BT.601 transform gives R, G and B each within 2 of the
\* original value.
C20_RoundTripWithinTwo ==
    (fn = "rgb_to_8_bit_ycbcr" /\ ret # None) =>
        LET back == InverseBt601(ret.v.out)
        IN /\ Distance(back.r, 1000000 * arg.r) <= 2000000
           /\ Distance(back.g, 1000000 * arg.g) <= 2000000
           /\ Distance(back.b, 1000000 * arg.b) <= 2000000

\* a pixel whose blue comes back more than one sample off
C20_Witness ==
    /\ fn = "rgb_to_8_bit_ycbcr"
    /\ ret # None
    /\ Distance(InverseBt601(ret.v.out).b, 1000000 * arg.b) > 1000000

\* C12: the bit depth of the plane encodes and of the AVIF container is
\* the bit depth given to convert_to_avif_stored (8, 10 or 12), on the
\* encode_rgba path and on the encode_rgb path.
C12_ConfiguredDepthUsed ==
    (call # None /\ call.via # "api")
        => /\ encoder.bit_depth = params.depth
           /\ call.bit_depth = params.depth
           /\ packaged # None => packaged.v.bit_depth = params.depth

\* t occurs in s as a run of consecutive bytes
Contains(s, t) ==
    \E i \in 1..(Len(s) - Len(t) + 1) : SubSeq(s, i, i + Len(t) - 1) = t

\* C13: when a non-empty metadata blob is attached to the conversion, the
\* AVIF bytes of the encode contain it byte for byte; when none is attached
\* the file holds the container of the payloads and nothing else.
C13_ExifEmbedded ==
    (file # None /\ pc = "done" /\ result.tag = "Ok")
        => IF image.exif_data # <<>>
           THEN /\ encoder.exif_data = image.exif_data
                /\ Contains(image.encoded_data, image.exif_data)
           ELSE image.encoded_data
                    = Aviffy_to_vec(packaged.v.color, packaged.v.alpha, packaged.v.width,
                                    packaged.v.height, packaged.v.bit_depth)

\* C14: every bitmap that reaches Encoder::encode through
\* convert_to_avif_stored is at least 32 wide and 32 high: a decoded image
\* whose width or height is below 32 ends the conversion with an error at
\* load time, before any encoder is built or any plane encode is issued.
C14_SmallBitmapRejected ==
    (raw_image # None
        /\ (raw_image.v.width < MinWidth \/ raw_image.v.height < MinWidth))
        => /\ pc = "done"
           /\ result.tag = "Err"
           /\ encoder = None
           /\ call = None

\* the quantizer of quality 55, below which from_my_preset takes the
\* quantizer for a low one
LowQuantizerLimit == quality_to_quantizer(55)

C17_TileSizeDoubledAboveQuality80 ==
    (fn = "from_my_preset" /\ ret.tweaks # None /\ arg.quality # None
        /\ arg.speed \in MinSpeed..MaxSpeed)
        => LET shifted == 4096 \div Pow2(arg.speed)
               base == IF shifted > 128 THEN shifted ELSE 128
           IN /\ ret.tweaks.v.min_tile_size
                     = base * (IF arg.quality.v > 80 THEN 2 ELSE 1)
              /\ ret.tweaks.v.min_tile_size < Pow2(16)

\* C18: for a fixed quantizer the partition range of from_my_preset narrows
\* as speed increases: for every speed s in 1..=9 the range at s + 1 lies
\* within the range at s, and at every speed min <= max, so speed_settings
\* accepts the range.
C18_PartitionRangeNarrows ==
    (fn = "from_my_preset" /\ ret.tweaks # None)
        => LET r == ret.tweaks.v.partition_range
           IN /\ r[1] <= r[2]
              /\ ret.settings # None => ret.settings.v # Panic
              /\ arg.speed \in MinSpeed..(MaxSpeed - 1)
                     => LET n == from_my_preset(arg.speed + 1, arg.quantizer).partition_range
                        IN r[1] <= n[1] /\ n[2] <= r[2]

\* speed 1 at a quantizer that is neither high nor, at speed 2, uncapped:
\* the range shrinks from 4..64 to 4..32
C18_Witness ==
    /\ fn = "from_my_preset"
    /\ arg.speed = 1
    /\ ret.settings # None
    /\ ret.tweaks.v.partition_range = <<4, 64>>
    /\ from_my_preset(2, arg.quantizer).partition_range = <<4, 32>>

\* C19: every color encode is configured with 4:4:4 chroma sampling, every
\* alpha encode with the monochrome 4:0:0 format and full pixel range, and
\* every encode as a single still picture (still_picture set, key-frame
\* intervals 0); a payload holds the bytes of KEY packets only.
C19_StillPictureKeyFramesOnly ==
    ctx # None
        => /\ plane = "color" => ctx.cfg.chroma_sampling = "Cs444"
           /\ plane = "alpha" => /\ ctx.cfg.chroma_sampling = "Cs400"
                                 /\ ctx.cfg.pixel_range = "Full"
           /\ ctx.cfg.still_picture
           /\ ctx.cfg.min_key_frame_interval = 0
           /\ ctx.cfg.max_key_frame_interval = 0
           /\ \A i \in DOMAIN ctx.out :
                  \E packet \in Packets(plane) :
                      /\ packet.frame_type = "KEY"
                      /\ ctx.out[i] \in {packet.data[j] : j \in DOMAIN packet.data}

\* the alpha encode of a conversion after a KEY and a packet of another type
C19_Witness ==
    /\ file # None
    /\ ctx # None
    /\ plane = "alpha"
    /\ pc = "receive_packet"
    /\ ctx.packets = 2
    /\ ctx.out = packet_data("alpha")

\* C15: a fully-opaque RGBA bitmap and the 3-channel bitmap of the same
\* colors are encoded alike: for either, Encoder::encode issues the one
\* raw-plane call, color configuration and packager input that the width,
\* the height and the Encoder determine (10-bit samples of the colors, no
\* alpha), so encoded_data is the packaging of the same color payload.
C15_OpaqueRgbaSameAsRgb ==
    (file # None /\ ~HasTransparency(image.bitmap))
        => /\ call # None
                  => call = [width |-> image.width, height |-> image.height,
                             planes |-> image.width * image.height,
                             samples |-> "rgb_to_10_bit_ycbcr",
                             alpha |-> None,
                             color_pixel_range |-> "Full", bit_depth |-> 10,
                             via |-> "encode_rgb"]
           /\ ctx # None
                  => /\ plane = "color"
                     /\ ctx.cfg = rav1e_config(color_config(encoder, image.width,
                                                            image.height, "Full", 10))
           /\ packaged # None
                  => packaged.v = [color |-> color.v, alpha |-> None,
                                   width |-> image.width, height |-> image.height,
                                   bit_depth |-> 10]
           /\ (pc = "done" /\ result.tag = "Ok")
                  => image.encoded_data
                         = Aviffy_to_vec(color.v, None, image.width, image.height, 10)

\* a finished conversion of an RGBA bitmap whose every pixel is opaque and
\* whose alpha buffer holds a whole vector at every alignment
C15_Witness ==
    /\ file # None
    /\ image.bitmap.has_alpha
    /\ ~HasTransparency(image.bitmap)
    /\ Len(image.bitmap.alpha) >= 2 * Lanes
    /\ pc = "done"
    /\ result.tag = "Ok"
    /\ Len(image.encoded_data) > 1

\* the quality flags of from_my_preset as its profile shows them: cdef is
\* low_quality at every speed <= 9, and min_tile_size is twice the size of
\* the speed exactly when high_quality is set
LowQualityFlag(tweaks) == tweaks.cdef = Some(TRUE)

HighQualityFlag(tweaks) ==
    LET shifted == 4096 \div Pow2(tweaks.speed_preset)
    IN tweaks.min_tile_size = 2 * (IF shifted > 128 THEN shifted ELSE 128)

\* C30: for every quantizer in 0..=255 from_my_preset never classifies it as
\* both low_quality and high_quality.
C30_QualityFlagsExclusive ==
    (fn = "from_my_preset" /\ ret.tweaks # None /\ arg.speed <= 9)
        => ~(LowQualityFlag(ret.tweaks.v) /\ HighQualityFlag(ret.tweaks.v))

\* C28: encode_to_av1 returns Ok only with a payload that holds at least one
\* KEY packet: whatever packets and statuses receive_packet yields, neither
\* the color nor the alpha encode returns Ok with an empty byte vector.
C28_OkPayloadNotEmpty ==
    /\ (color # None /\ color.tag = "Ok") => color.v # <<>>
    /\ (alpha # None /\ alpha.v.tag = "Ok") => alpha.v.v # <<>>

\* the positions of a conversion inside Encoder::encode
InEncode ==
    /\ file # None
    /\ pc \in {"encode", "encode_rgba", "encode_rgb", "new_context", "init", "send_frame",
               "receive_packet", "encode_raw_planes", "encode_returns"}

\* C27: if Encoder::encode returns an error the ImageFile is as it was before
\* the call: no step of encode changes the image (encoded_data, bitmap,
\* width, height) except the return that stores the bytes of an Ok result.
C27_FailedEncodeKeepsImage ==
    [][InEncode => (image' = image \/ (pc = "encode_returns" /\ result'.tag = "Ok"))]_vars

\* an encode that failed after the color plane was encoded
C27_Witness ==
    /\ file # None
    /\ pc = "done"
    /\ call # None
    /\ color # None /\ color.tag = "Ok"
    /\ result.tag = "Err"
    /\ image.encoded_data = <<>>
    /\ image.bitmap.alpha # <<>>

\* C29: for every requested thread count and every item count, a batch of
\* no files included, calculate_tread_count returns without failing, with
\* spawn_threads >= 1, task_threads >= 1 and
\* task_threads * min(items, spawn_threads) <= spawn_threads.
C29_ThreadBudget ==
    (fn = "calculate_tread_count" /\ ret # None)
        => /\ ret.v # Panic
           /\ ret.v.spawn_threads >= 1
           /\ ret.v.task_threads >= 1
           /\ ret.v.task_threads * Min(arg.num_items, ret.v.spawn_threads)
                  <= ret.v.spawn_threads

\* C21: after save_avif with no output path and keep = false returned Ok,
\* <generated name>.avif in the source directory holds exactly
\* image.encoded_data, the source is gone from its original name (unless
\* that name is <generated name>.avif) and no .tmp file remains.
C21_SourceReplacedByEncoded ==
    \A j \in DOMAIN jobs :
        (main.mode = "single" /\ jobs[j].pc = "saved" /\ jobs[j].saved.tag = "Ok"
            /\ jobs[j].out = None /\ ~jobs[j].keep)
            => LET path == jobs[j].item.metadata.path
                   avif_name == AvifPath(path.dir, jobs[j].fname)
               IN /\ avif_name \in DOMAIN disk
                  /\ disk[avif_name] = jobs[j].item.encoded_data
                  /\ path # avif_name => path \notin DOMAIN disk
                  /\ \A p \in DOMAIN disk : p.ext # "tmp"

\* C26: save_avif with keep = true writes image.encoded_data to the target
\* path and leaves the source file in place with its bytes unchanged, for
\* every name type, output path and source extension.
C26_KeepLeavesSource ==
    \A j \in DOMAIN jobs :
        (main.mode = "single" /\ jobs[j].pc = "saved" /\ jobs[j].keep)
            => LET path == jobs[j].item.metadata.path
               IN /\ jobs[j].saved.tag = "Ok"
                  /\ disk[jobs[j].target_path.v] = jobs[j].item.encoded_data
                  /\ path \in DOMAIN disk
                  /\ disk[path] = SourceData


SaveStages == {"save_avif", "write_temp", "rename_temp", "rename_source", "write", "saved"}

\* C22: in batch_conv an item whose convert_to_avif_stored failed is skipped:
\* its job never enters save_avif, and its source file stays on disk under its
\* own name with its own bytes, whatever the keep setting.
C22_FailedItemSkipped ==
    main.mode = "batch" =>
        \A j \in DOMAIN jobs :
            jobs[j].conv.tag = "Err" =>
                /\ jobs[j].pc \notin SaveStages
                /\ jobs[j].saved = None
                /\ jobs[j].item.metadata.path \in DOMAIN disk
                /\ disk[jobs[j].item.metadata.path] = SourceData

\* C23: when pool.join() has returned, ITEMS_PROCESSED equals the number of
\* files found, also when the conversion or the save of some item failed.
C23_AllItemsProcessed ==
    (main.mode = "batch" /\ main.pc = "joined") =>
        stats.ITEMS_PROCESSED = Len(jobs)

RECURSIVE OkSizes(_)
OkSizes(k) ==
    IF k = 0 THEN 0
    ELSE OkSizes(k - 1) + (IF jobs[k].conv.tag = "Ok" THEN jobs[k].conv.v ELSE 0)

OkItems == {j \in DOMAIN jobs : jobs[j].conv.tag = "Ok"}

\* C24: when pool.join() has returned, SUCCESS_COUNT is the number of items
\* whose convert_to_avif_stored returned Ok, FINAL_STATS is the sum of their
\* encoded sizes, and SUCCESS_COUNT <= ITEMS_PROCESSED.
C24_CountersAgree ==
    (main.mode = "batch" /\ main.pc = "joined") =>
        /\ stats.SUCCESS_COUNT = Cardinality(OkItems)
        /\ stats.FINAL_STATS = OkSizes(Len(jobs))
        /\ stats.SUCCESS_COUNT <= stats.ITEMS_PROCESSED


\* C25: in watch mode every conversion job is for a file another program
\* created, and each such file has at most one job: no job is started for the
\* temporary .tmp file or the .avif the converter wrote, so none fails on them.
C25_NoJobForOwnOutput ==
    main.mode = "watch" =>
        /\ \A j \in DOMAIN jobs : jobs[j].item.metadata.path \in main.external
        /\ \A j, k \in DOMAIN jobs :
               jobs[j].item.metadata.path = jobs[k].item.metadata.path => j = k

=============================================================================
